---- MODULE Spec2Model ----
(***************************************************************************)
(* Verification model of the MikroTikPatch trust primitives:               *)
(*   src/mikro.py   block transform, Mikro SHA-256, KCDSA sign / verify    *)
(*   src/sha256.py  SHA-256 (update / digest / padding / compression)      *)
(*   src/npk.py     NovaPackage parts, digest walk, sign / verify, I/O     *)
(*   src/toyecc/    field, Montgomery curve and point arithmetic           *)
(*                                                                         *)
(* Bytes are integers 0..255 and byte strings are sequences of bytes.      *)
(* A 32-bit word is the pair <<hi, lo>> of its 16-bit halves, so that all  *)
(* arithmetic is exact modulo 2^32.                                        *)
(***************************************************************************)
EXTENDS Integers, Sequences, FiniteSets, TLC

(***************************************************************************)
(* Bit operations on bytes and 32-bit words (Python's ^, &, ~, <<, >>).    *)
(***************************************************************************)
RECURSIVE XorBits(_, _, _)
XorBits(a, b, n) ==
  IF n = 0 THEN 0
  ELSE ((a + b) % 2) + 2 * XorBits(a \div 2, b \div 2, n - 1)

RECURSIVE AndBits(_, _, _)
AndBits(a, b, n) ==
  IF n = 0 THEN 0
  ELSE ((a % 2) * (b % 2)) + 2 * AndBits(a \div 2, b \div 2, n - 1)

Xor8T == [a \in 0..255 |-> [b \in 0..255 |-> XorBits(a, b, 8)]]
And8T == [a \in 0..255 |-> [b \in 0..255 |-> AndBits(a, b, 8)]]

Xor8(a, b) == Xor8T[a][b]
And8(a, b) == And8T[a][b]
Or8(a, b) == a + b - And8T[a][b]

Xor16(a, b) == 256 * Xor8T[a \div 256][b \div 256] + Xor8T[a % 256][b % 256]
And16(a, b) == 256 * And8T[a \div 256][b \div 256] + And8T[a % 256][b % 256]

Pow2 == [n \in 0..16 |-> 2^n]

Xor32(x, y) == <<Xor16(x[1], y[1]), Xor16(x[2], y[2])>>
And32(x, y) == <<And16(x[1], y[1]), And16(x[2], y[2])>>
Not32(x) == <<65535 - x[1], 65535 - x[2]>>

\* (x + y) mod 2^32
Add32(x, y) ==
  LET lo == x[2] + y[2]
      hi == x[1] + y[1] + (lo \div 65536)
  IN  <<hi % 65536, lo % 65536>>

\* (x - y) mod 2^32
Sub32(x, y) ==
  LET lo == x[2] - y[2]
      hi == x[1] - y[1] - (IF lo < 0 THEN 1 ELSE 0)
  IN  <<hi % 65536, lo % 65536>>

\* left rotation of a 32-bit word by d in 0..15
Rotl32(x, d) ==
  <<((x[1] * Pow2[d]) % 65536) + (x[2] \div Pow2[16 - d]),
    ((x[2] * Pow2[d]) % 65536) + (x[1] \div Pow2[16 - d])>>

\* right rotation of a 32-bit word by n in 1..31
Rrot32(x, n) ==
  LET y == IF n >= 16 THEN <<x[2], x[1]>> ELSE x
      m == n % 16
  IN  <<(y[1] \div Pow2[m]) + ((y[2] % Pow2[m]) * Pow2[16 - m]),
        (y[2] \div Pow2[m]) + ((y[1] % Pow2[m]) * Pow2[16 - m])>>

\* logical right shift of a 32-bit word by n in 1..15
Shr32(x, n) ==
  <<x[1] \div Pow2[n], (x[2] \div Pow2[n]) + ((x[1] % Pow2[n]) * Pow2[16 - n])>>

\* struct.unpack('>I') / int.to_bytes(4, 'big')
WordOfBytes(b) == <<256 * b[1] + b[2], 256 * b[3] + b[4]>>
BytesOfWord(w) == <<w[1] \div 256, w[1] % 256, w[2] \div 256, w[2] % 256>>

RECURSIVE Concat(_)
Concat(ss) == IF ss = <<>> THEN <<>> ELSE Head(ss) \o Concat(Tail(ss))

Zeros(n) == [i \in 1..n |-> 0]

\* TRUE for every value; comparing v evaluates it, so that a loop written as a
\* recursion finishes one iteration before it starts the next
Evaluated(v) == v = v

\* Python slice b[from:to] (0-based, silently clipped to the buffer)
Slice(b, from, to) ==
  LET hi == IF to > Len(b) THEN Len(b) ELSE to
  IN  IF from >= hi THEN <<>> ELSE SubSeq(b, from + 1, hi)

(***************************************************************************)
(* src/mikro.py: the Mikro constant table and the 128-bit block transform. *)
(***************************************************************************)
MIKRO_SHA256_K ==
  <<
    <<1352, 54627>>, <<38960, 36523>>, <<14255, 31948>>, <<57276, 20028>>,
    <<61733, 43721>>, <<60568, 44216>>, <<35668, 1941>>, <<54240, 61198>>,
    <<18692, 55013>>, <<3496, 18817>>, <<39455, 33874>>, <<235, 32426>>,
    <<38648, 58291>>, <<42701, 46677>>, <<59201, 3998>>, <<36588, 45117>>,
    <<40042, 31781>>, <<55163, 1839>>, <<28303, 25866>>, <<4686, 13888>>,
    <<32339, 30810>>, <<57365, 1906>>, <<50718, 62688>>, <<48215, 58848>>,
    <<49401, 41605>>, <<56116, 10326>>, <<6408, 13511>>, <<64491, 32142>>,
    <<9499, 60724>>, <<3743, 10925>>, <<9578, 47361>>, <<2651, 30864>>,
    <<40722, 20233>>, <<55370, 37201>>, <<17018, 63098>>, <<32857, 51626>>,
    <<5098, 45097>>, <<12627, 52721>>, <<9773, 16477>>, <<41488, 23943>>,
    <<40052, 24341>>, <<53601, 14407>>, <<10572, 57653>>, <<8443, 3900>>,
    <<33828, 55533>>, <<36674, 438>>, <<4810, 7847>>, <<8276, 45201>>,
    <<17981, 33416>>, <<51250, 21443>>, <<13290, 12618>>, <<38550, 56466>>,
    <<53313, 52890>>, <<58695, 29024>>, <<51045, 27624>>, <<20857, 65075>>,
    <<8007, 9969>>, <<24377, 15088>>, <<9954, 53252>>, <<27906, 581>>,
    <<34301, 63191>>, <<45091, 31830>>, <<65375, 48532>>, <<43187, 62772>>
  >>

\* MIKRO_SHA256_K[j] for the 0-based index j of the source
MK(j) == MIKRO_SHA256_K[j + 1]

\* MIKRO_SHA256_K[j] & 0x0F
MKRot(j) == MK(j)[2] % 16

\* s[(i+j) % 4] of the source as a 1-based index
Ix(i, j) == ((i + j) % 4) + 1

\* to32bits(rotl(b, r) ^ (a - b)): the rotation is not masked in the source,
\* to32bits keeps the low 32 bits of the result
EncMix(a, b, r) == Xor32(Rotl32(b, r), Sub32(a, b))

\* the decode step with the addition taken before the XOR
DecMix_swapped(a, b, r) == Xor32(Rotl32(b, r), Add32(a, b))

\* to32bits((rotl(b, r) ^ a) + b)
DecMix(a, b, r) == Add32(Xor32(Rotl32(b, r), a), b)

\* s[t] = to32bits(rotl(s[o], r) ^ (s[t] - s[o]))
EncMixStep(s, t, o, r) == [s EXCEPT ![t] = EncMix(s[t], s[o], r)]

\* s[t] = to32bits(s[t] + s[o] + k)
EncAddStep(s, t, o, k) == [s EXCEPT ![t] = Add32(Add32(s[t], s[o]), k)]

\* s[t] = to32bits(s[t] - s[o] - k)
DecSubStep(s, t, o, k) == [s EXCEPT ![t] = Sub32(Sub32(s[t], s[o]), k)]

\* s[t] = to32bits((rotl(s[o], r) ^ s[t]) + s[o])
DecMixStep(s, t, o, r) == [s EXCEPT ![t] = DecMix(s[t], s[o], r)]

\* one round i of mikro_encode: the eight assignments of the loop body, the
\* innermost call being the first assignment (constants 3, 2, 1, 0)
EncRound(s, i) ==
  EncAddStep(EncMixStep(
  EncAddStep(EncMixStep(
  EncAddStep(EncMixStep(
  EncAddStep(EncMixStep(s,
    Ix(i,0), Ix(i,3), MKRot(i*4+3)), Ix(i,3), Ix(i,1), MK(i*4+3)),
    Ix(i,1), Ix(i,2), MKRot(i*4+2)), Ix(i,0), Ix(i,2), MK(i*4+2)),
    Ix(i,2), Ix(i,1), MKRot(i*4+1)), Ix(i,1), Ix(i,3), MK(i*4+1)),
    Ix(i,3), Ix(i,0), MKRot(i*4+0)), Ix(i,2), Ix(i,0), MK(i*4+0))

\* one round i of mikro_decode: the eight assignments of the loop body, the
\* innermost call being the first assignment (constants 0, 1, 2, 3)
DecRound(s, i) ==
  DecMixStep(DecSubStep(
  DecMixStep(DecSubStep(
  DecMixStep(DecSubStep(
  DecMixStep(DecSubStep(s,
    Ix(i,2), Ix(i,0), MK(i*4+0)), Ix(i,3), Ix(i,0), MKRot(i*4+0)),
    Ix(i,1), Ix(i,3), MK(i*4+1)), Ix(i,2), Ix(i,1), MKRot(i*4+1)),
    Ix(i,0), Ix(i,2), MK(i*4+2)), Ix(i,1), Ix(i,2), MKRot(i*4+2)),
    Ix(i,3), Ix(i,1), MK(i*4+3)), Ix(i,0), Ix(i,3), MKRot(i*4+3))

\* struct.unpack('>IIII', s) and its inverse
UnpackBlock(b) == [j \in 1..4 |-> WordOfBytes(SubSeq(b, 4*j - 3, 4*j))]
PackBlock(s) == BytesOfWord(s[1]) \o BytesOfWord(s[2]) \o BytesOfWord(s[3]) \o BytesOfWord(s[4])

\* for i in reversed(range(16))
RECURSIVE EncRounds(_, _)
EncRounds(s, i) ==
  IF i < 0 THEN s
  ELSE LET t == EncRound(s, i)
       IN  IF Evaluated(t) THEN EncRounds(t, i - 1) ELSE t

\* for i in range(16)
RECURSIVE DecRounds(_, _)
DecRounds(s, i) ==
  IF i > 15 THEN s
  ELSE LET t == DecRound(s, i)
       IN  IF Evaluated(t) THEN DecRounds(t, i + 1) ELSE t

mikro_encode(b) == PackBlock(EncRounds(UnpackBlock(b), 15))
mikro_decode(b) == PackBlock(DecRounds(UnpackBlock(b), 0))

(***************************************************************************)
(* src/sha256.py: SHA256, parameterised by the class attributes K and      *)
(* INITIAL_STATE that MikroSHA256 (src/mikro.py) overrides.                *)
(***************************************************************************)
SHA256_INITIAL_STATE ==
  <<
    <<27145, 58983>>, <<47975, 44677>>, <<15470, 62322>>, <<42319, 62778>>,
    <<20750, 21119>>, <<39685, 26764>>, <<8067, 55723>>, <<23520, 52505>>
  >>

SHA256_K ==
  <<
    <<17034, 12184>>, <<28983, 17553>>, <<46528, 64463>>, <<59829, 56229>>,
    <<14678, 49755>>, <<23025, 4593>>, <<37439, 33444>>, <<43804, 24277>>,
    <<55303, 43672>>, <<4739, 23297>>, <<9265, 34238>>, <<21772, 32195>>,
    <<29374, 23924>>, <<32990, 45566>>, <<39900, 1703>>, <<49563, 61812>>,
    <<58523, 27073>>, <<61374, 18310>>, <<4033, 40390>>, <<9228, 41420>>,
    <<11753, 11375>>, <<19060, 33962>>, <<23728, 43484>>, <<30457, 35034>>,
    <<38974, 20818>>, <<43057, 50797>>, <<45059, 10184>>, <<48985, 32711>>,
    <<50912, 3059>>, <<54695, 37191>>, <<1738, 25425>>, <<5161, 10599>>,
    <<10167, 2693>>, <<11803, 8504>>, <<19756, 28156>>, <<21304, 3347>>,
    <<25866, 29524>>, <<30314, 2747>>, <<33218, 51502>>, <<37490, 11397>>,
    <<41663, 59553>>, <<43034, 26187>>, <<49739, 35696>>, <<51052, 20899>>,
    <<53650, 59417>>, <<54937, 1572>>, <<62478, 13701>>, <<4202, 41072>>,
    <<6564, 49430>>, <<7735, 27656>>, <<10056, 30540>>, <<13488, 48309>>,
    <<14620, 3251>>, <<20184, 43594>>, <<23452, 51791>>, <<26670, 28659>>,
    <<29839, 33518>>, <<30885, 25455>>, <<33992, 30740>>, <<36039, 520>>,
    <<37054, 65530>>, <<42064, 27883>>, <<48889, 41975>>, <<50801, 30962>>
  >>

MIKRO_INITIAL_STATE ==
  <<
    <<23397, 14642>>, <<31508, 24463>>, <<29183, 45713>>, <<14575, 37471>>,
    <<993, 43769>>, <<18976, 22476>>, <<19631, 19929>>, <<25660, 51690>>
  >>

\* the two classes: their K and INITIAL_STATE attributes
StdSHA256Class == [K |-> SHA256_K, INITIAL_STATE |-> SHA256_INITIAL_STATE]
MikroSHA256Class == [K |-> MIKRO_SHA256_K, INITIAL_STATE |-> MIKRO_INITIAL_STATE]

\* a State(a b c d e f g h) is the 8-tuple <<a, ..., h>>
sha_ch(x, y, z) == Xor32(And32(x, y), And32(Not32(x), z))
sha_maj(x, y, z) == Xor32(And32(x, y), Xor32(And32(x, z), And32(y, z)))
sha_S0(x) == Xor32(Rrot32(x, 2), Xor32(Rrot32(x, 13), Rrot32(x, 22)))
sha_S1(x) == Xor32(Rrot32(x, 6), Xor32(Rrot32(x, 11), Rrot32(x, 25)))
sha_s0(x) == Xor32(Rrot32(x, 7), Xor32(Rrot32(x, 18), Shr32(x, 3)))
sha_s1(x) == Xor32(Rrot32(x, 17), Xor32(Rrot32(x, 19), Shr32(x, 10)))

sha_T1(prev, w, k) ==
  Add32(Add32(Add32(Add32(sha_S1(prev[5]), sha_ch(prev[5], prev[6], prev[7])), prev[8]), w), k)
sha_T2(prev) == Add32(sha_S0(prev[1]), sha_maj(prev[1], prev[2], prev[3]))

\* a _round that takes the constant from the FIPS table of the base class
\* whatever the class it is called on
sha_round_fips(cls, number, w, prev) ==
  LET t1 == sha_T1(prev, w, SHA256_K[(number % 64) + 1])
  IN  <<Add32(t1, sha_T2(prev)), prev[1], prev[2], prev[3],
        Add32(prev[4], t1), prev[5], prev[6], prev[7]>>

\* SHA256._round(number, w, prev)
sha_round(cls, number, w, prev) ==
  LET t1 == sha_T1(prev, w, cls.K[(number % 64) + 1])
  IN  <<Add32(t1, sha_T2(prev)), prev[1], prev[2], prev[3],
        Add32(prev[4], t1), prev[5], prev[6], prev[7]>>

\* SHA256._finalize(state, initial_state)
sha_finalize(state, initial_state) ==
  [j \in 1..8 |-> Add32(state[j], initial_state[j])]

\* SHA256._expand_message: w has 16 words on entry and 64 on return
RECURSIVE sha_expand(_)
sha_expand(w) ==
  IF Len(w) >= 64 THEN w
  ELSE LET i == Len(w) + 1   \* 1-based index of the word to append
       IN  sha_expand(Append(w,
             Add32(Add32(Add32(w[i - 16], sha_s0(w[i - 15])), w[i - 7]), sha_s1(w[i - 2]))))

\* for i in range(64): midstate = cls._round(round_offset + i, w[i], midstate)
RECURSIVE sha_rounds(_, _, _, _, _)
sha_rounds(cls, w, midstate, round_offset, i) ==
  IF ~Evaluated(midstate) \/ i >= 64 THEN midstate
  ELSE sha_rounds(cls, w, sha_round(cls, round_offset + i, w[i + 1], midstate),
                  round_offset, i + 1)

\* SHA256._process_block(message, state, round_offset)
sha_process_block(cls, message, state, round_offset) ==
  LET w == sha_expand([j \in 1..16 |-> WordOfBytes(SubSeq(message, 4*j - 3, 4*j))])
  IN  sha_finalize(sha_rounds(cls, w, state, round_offset, 0), state)

\* struct.pack('>LL', length >> 32, length & 0xffffffff) for length < 2^31
PackLength(length) ==
  <<0, 0, 0, 0, length \div 16777216, (length \div 65536) % 256,
    (length \div 256) % 256, length % 256>>

\* a padding that takes a tail of 56 bytes for short enough for one block
sha_pad_message_56(message, length) ==
  IF Len(message) <= 56
  THEN << SubSeq(message \o <<128>> \o Zeros(55), 1, 56) \o PackLength(length) >>
  ELSE << message \o <<128>> \o Zeros(63 - Len(message)),
          Zeros(56) \o PackLength(length) >>

\* SHA256._pad_message(message, length): the final one or two blocks
sha_pad_message(message, length) ==
  IF Len(message) <= 55
  THEN << message \o <<128>> \o Zeros(55 - Len(message)) \o PackLength(length) >>
  ELSE << message \o <<128>> \o Zeros(63 - Len(message)),
          Zeros(56) \o PackLength(length) >>

\* SHA256.__init__ before its call of update
sha_new(cls) ==
  [state |-> cls.INITIAL_STATE, length |-> 0, buffer |-> <<>>, round_offset |-> 0]

\* the while loop of SHA256.update
RECURSIVE sha_drain(_, _)
sha_drain(cls, h) ==
  IF Len(h.buffer) >= 64
  THEN sha_drain(cls,
         [h EXCEPT !.state = sha_process_block(cls, SubSeq(h.buffer, 1, 64), h.state, h.round_offset),
                   !.buffer = SubSeq(h.buffer, 65, Len(h.buffer)),
                   !.round_offset = h.round_offset + 64])
  ELSE h

\* an update that buffers the message in place of what the buffer held
sha_update_overwrites(cls, h, message) ==
  sha_drain(cls, [h EXCEPT !.length = h.length + Len(message) * 8,
                           !.buffer = message])

\* SHA256.update(message)
sha_update(cls, h, message) ==
  sha_drain(cls, [h EXCEPT !.length = h.length + Len(message) * 8,
                           !.buffer = h.buffer \o message])

\* for block in self._pad_message(...): final_state = self._process_block(...)
RECURSIVE sha_final(_, _, _, _)
sha_final(cls, blocks, final_state, round_offset) ==
  IF ~Evaluated(final_state) \/ blocks = <<>> THEN final_state
  ELSE sha_final(cls, Tail(blocks),
                 sha_process_block(cls, Head(blocks), final_state, round_offset),
                 round_offset)

\* SHA256.digest(): struct.pack('>LLLLLLLL', *final_state)
sha_digest(cls, h) ==
  LET fs == sha_final(cls, sha_pad_message(h.buffer, h.length), h.state, h.round_offset)
  IN  Concat([j \in 1..8 |-> BytesOfWord(fs[j])])

\* a digest() that keeps what it computed: the state after the final blocks
\* and an empty buffer
sha_after_digest_commits(cls, h) ==
  [h EXCEPT !.state = sha_final(cls, sha_pad_message(h.buffer, h.length), h.state,
                                h.round_offset),
            !.buffer = <<>>]

\* the hasher after SHA256.digest(): digest assigns the local final_state
\* only, no attribute of self
sha_after_digest(cls, h) == h

\* mikro_sha256(data) == MikroSHA256(data).digest()
mikro_sha256(data) == sha_digest(MikroSHA256Class, sha_update(MikroSHA256Class, sha_new(MikroSHA256Class), data))

\* hashlib.new('SHA256'), fed data in one or more update calls
std_sha256(data) == sha_digest(StdSHA256Class, sha_update(StdSHA256Class, sha_new(StdSHA256Class), data))

(***************************************************************************)
(* src/toyecc: prime field, Montgomery curve b*y^2 = x^3 + a*x^2 + x and   *)
(* affine point arithmetic.                                                *)
(*                                                                         *)
(* The curve is the entry "Curve25519" of CurveDB.py scaled from a 255-bit *)
(* to a 15-bit field so that the group can be explored: p = 2^15 - 19      *)
(* (source 2^255 - 19, both 5 mod 8), cofactor h = 8, prime order          *)
(* n = 2^12 + 37 (source 2^252 + 27742...493) with h*n > 2^15, b = 1 and   *)
(* a generator of order n.  Byte widths (32-byte scalars, 16-byte nonce    *)
(* hash, 48-byte signature) are those of the source.                       *)
(***************************************************************************)
CurveP == 32749
CurveA == 6
CurveB == 1
CurveN == 4133
CurveH == 8
CurveGx == 20
CurveGy == 2174

\* FieldElement arithmetic: every operation reduces modulo the modulus
FAdd(x, y) == (x + y) % CurveP
FSub(x, y) == (x - y) % CurveP
FMul(x, y) == (x * y) % CurveP
FNeg(x) == (0 - x) % CurveP

\* pow(x, e, m)
RECURSIVE PowMod(_, _, _)
PowMod(x, e, m) ==
  IF e = 0 THEN 1 % m
  ELSE LET h == PowMod(x, e \div 2, m)
           hh == (h * h) % m
       IN  IF e % 2 = 1 THEN (hh * (x % m)) % m ELSE hh

\* FieldElement.__pow__
FPow(x, e) == PowMod(x, e, CurveP)

\* FieldElement._eea(a, b): the loop state is <<a, b, s, t, u, v>>
RECURSIVE EeaLoop(_)
EeaLoop(st) ==
  LET a == st[1]
      b == st[2]
      s == st[3]
      t == st[4]
      u == st[5]
      v == st[6]
  IN  IF b = 0 THEN <<a, u, v>>
      ELSE LET q == a \div b
               r == a % b
           IN  EeaLoop(<<b, r, u - (q * s), v - (q * t), s, t>>)

eea(a, b) == EeaLoop(<<a, b, 1, 0, 0, 1>>)

\* FieldElement.inverse (never applied to zero by the point arithmetic below)
FInv(x) == eea(x, CurveP)[3] % CurveP

\* FieldElement.__floordiv__
FDiv(x, y) == FMul(x, FInv(y % CurveP))

\* FieldElement.is_qnr: Euler's criterion, zero counts as a non-residue
is_qnr(x) == FPow(x, (CurveP - 1) \div 2) # 1

\* the decomposition p - 1 = q * 2^s of _tonelli_shanks_sqrt
RECURSIVE OddPart(_, _)
OddPart(q, s) == IF q % 2 = 0 THEN OddPart(q \div 2, s + 1) ELSE <<q, s>>

\* for i in range(1, m): if int(t ** (1 << i)) == 1: break   (the final i)
RECURSIVE TsFindI(_, _, _)
TsFindI(t, m, i) ==
  IF i >= m - 1 THEN i
  ELSE IF FPow(t, 2^i) = 1 THEN i ELSE TsFindI(t, m, i + 1)

\* while int(t) != 1 of _tonelli_shanks_sqrt
RECURSIVE TsLoop(_, _, _, _)
TsLoop(r, t, c, m) ==
  IF t = 1 THEN r
  ELSE LET i == TsFindI(t, m, 1)
           b == FPow(c, 2^(m - i - 1))
       IN  TsLoop(FMul(r, b), FMul(t, FMul(b, b)), FMul(b, b), i)

\* FieldElement._tonelli_shanks_sqrt with the random non-residue z drawn by it
tonelli_shanks_sqrt(x, z) ==
  LET qs == OddPart(CurveP - 1, 0)
      q == qs[1]
      s == qs[2]
  IN  TsLoop(FPow(x, (q + 1) \div 2), FPow(x, q), FPow(z, q), s)

\* Values that are no number, point or byte string are tuples of another
\* length: the None that sqrt returns, and a raised exception
None == <<"None", "None", "None", "None">>
TypeError == <<"raise", "TypeError", "">>
IndexError == <<"raise", "IndexError", "">>

\* a value that stands for a raised exception
Raised(v) == Len(v) = 3

\* FieldElement.sqrt: None, or the pair of roots with the even one first
fsqrt(x, z) ==
  IF is_qnr(x) THEN None
  ELSE LET root == IF CurveP % 4 = 3 THEN FPow(x, (CurveP + 1) \div 4)
                   ELSE tonelli_shanks_sqrt(x, z)
       IN  IF root % 2 = 0 THEN <<root, FNeg(root)>> ELSE <<FNeg(root), root>>

\* AffineCurvePoint: <<x, y>>, and <<>> for the neutral element (x is None)
Neutral == <<>>
CurveG == <<CurveGx, CurveGy>>
is_neutral(P) == P = Neutral

\* MontgomeryCurve.point_conjugate: int(P.x) raises for the neutral element
point_conjugate(P) == IF is_neutral(P) THEN TypeError ELSE <<P[1], FNeg(P[2])>>

\* MontgomeryCurve.oncurve
oncurve(P) ==
  \/ is_neutral(P)
  \/ FMul(CurveB, FPow(P[2], 2))
       = FAdd(FAdd(FPow(P[1], 3), FMul(CurveA, FPow(P[1], 2))), P[1])

\* the point-doubling branch of point_addition
point_double(P) ==
  LET x == P[1]
      y == P[2]
      A == FAdd(FAdd(FMul(3, FPow(x, 2)), FMul(FMul(2, x), CurveA)), 1)
      newx == FAdd(FSub(FMul(-2, x), CurveA),
                   FDiv(FPow(A, 2), FMul(FMul(4, FPow(y, 2)), CurveB)))
      newy == FSub(FAdd(FNeg(y),
                        FDiv(FMul(A, FAdd(FMul(3, x), CurveA)), FMul(FMul(2, y), CurveB))),
                   FDiv(FPow(A, 3), FMul(FMul(8, FPow(y, 3)), FPow(CurveB, 2))))
  IN  <<newx, newy>>

\* the branch P != Q of point_addition
point_add_distinct(P, Q) ==
  LET dx == FSub(P[1], Q[1])
      dy == FSub(P[2], Q[2])
      newx == FAdd(FSub(FSub(FNeg(P[1]), Q[1]), CurveA),
                   FDiv(FMul(FPow(dy, 2), CurveB), FPow(dx, 2)))
      newy == FSub(FSub(FDiv(FMul(FAdd(FAdd(FMul(2, P[1]), Q[1]), CurveA), dy), dx), P[2]),
                   FDiv(FMul(FPow(dy, 3), CurveB), FPow(dx, 3)))
  IN  <<newx, newy>>

\* MontgomeryCurve.point_addition(P, Q); an operand that is a raised error
\* propagates, and -Q raises when Q is neutral and P is not
point_addition(P, Q) ==
  IF Raised(P) THEN P
  ELSE IF Raised(Q) THEN Q
  ELSE IF is_neutral(P) THEN Q
  ELSE IF is_neutral(Q) THEN TypeError
  ELSE IF P = point_conjugate(Q) THEN Neutral
  ELSE IF P = Q THEN point_double(P)
  ELSE point_add_distinct(P, Q)

\* the bits of a scalar, least significant first, up to scalar.bit_length()
RECURSIVE BitsOfInt(_)
BitsOfInt(v) == IF v = 0 THEN <<>> ELSE <<v % 2>> \o BitsOfInt(v \div 2)

\* the pair <<result, n>> after one pass of the loop body of __mul__, or the
\* exception that one of the two additions raised
MulPair(result, n) ==
  IF Raised(result) THEN result ELSE IF Raised(n) THEN n ELSE <<result, n>>

\* if (scalar & (1 << bit)): result = result + n;  n = n + n
MulStep(bit, result, n) ==
  MulPair(IF bit = 1 THEN point_addition(result, n) ELSE result, point_addition(n, n))

\* the loop of AffineCurvePoint.__mul__ for bits[from..to]: st = <<result, n>>,
\* or the exception once an addition raised
RECURSIVE MulLoop(_, _, _, _)
MulLoop(bits, from, to, st) ==
  IF from > to \/ Raised(st) THEN st
  ELSE MulLoop(bits, from + 1, to, MulStep(bits[from], st[1], st[2]))

\* the same loop, run in stretches of 16 bits
RECURSIVE MulChunks(_, _, _)
MulChunks(bits, from, st) ==
  IF from > Len(bits) \/ Raised(st) THEN st
  ELSE MulChunks(bits, from + 16,
                 MulLoop(bits, from,
                         IF from + 15 < Len(bits) THEN from + 15 ELSE Len(bits), st))

\* return result
MulResult(st) == IF Raised(st) THEN st ELSE st[1]

\* AffineCurvePoint.__mul__ with the scalar given by its bits
point_mul_bits(P, bits) == MulResult(MulChunks(bits, 1, <<Neutral, P>>))
point_mul(P, scalar) == point_mul_bits(P, BitsOfInt(scalar))

(***************************************************************************)
(* src/toyecc/Tools.py: little-endian integer conversions.  Integers wider *)
(* than 31 bits stay byte strings: their bits drive the scalar             *)
(* multiplication and their residue is taken byte by byte.                 *)
(***************************************************************************)
\* Tools.inttobytes_le(value, length)
RECURSIVE inttobytes_le(_, _)
inttobytes_le(value, length) ==
  IF length = 0 THEN <<>>
  ELSE <<value % 256>> \o inttobytes_le(value \div 256, length - 1)

\* Tools.bytestoint_le(data) mod m
RECURSIVE bytestoint_le_mod(_, _)
bytestoint_le_mod(data, m) ==
  IF data = <<>> THEN 0
  ELSE (data[1] + 256 * bytestoint_le_mod(Tail(data), m)) % m

\* int.bit_length() of a byte and of Tools.bytestoint_le(data)
BitLength8(b) == IF b = 0 THEN 0 ELSE CHOOSE k \in 1..8 : Pow2[k - 1] <= b /\ b < Pow2[k]
BitLength(data) ==
  LET nz == {j \in 1..Len(data) : data[j] # 0}
  IN  IF nz = {} THEN 0
      ELSE LET top == CHOOSE j \in nz : \A k \in nz : k <= j
           IN  8 * (top - 1) + BitLength8(data[top])

\* the bits of Tools.bytestoint_le(data), least significant first,
\* up to its bit_length()
BitsOfBytesLE(data) ==
  [j \in 1..BitLength(data) |-> (data[((j - 1) \div 8) + 1] \div Pow2[(j - 1) % 8]) % 2]

(***************************************************************************)
(* src/mikro.py: mikro_kcdsa_sign and mikro_kcdsa_verify.                  *)
(***************************************************************************)
\* pow(a, -1, m) for a invertible modulo m
PyModInv(a, m) == eea(a % m, m)[3] % m

\* for i in range(16): data_hash[8+i] ^= nonce_hash[i]
XorNonceHash(data_hash, nonce_hash) ==
  [j \in 1..Len(data_hash) |->
     IF j >= 9 /\ j <= 24 THEN Xor8(data_hash[j], nonce_hash[j - 8]) ELSE data_hash[j]]

\* data_hash[0] &= 0xF8; data_hash[31] &= 0x7F; data_hash[31] |= 0x40
Clamp(data_hash) ==
  [data_hash EXCEPT ![1] = And8(data_hash[1], 248),
                    ![32] = Or8(And8(data_hash[32], 127), 64)]

\* the little-endian bytes of the integer data_hash that sign and verify use
DataHash(data, nonce_hash) == Clamp(XorNonceHash(mikro_sha256(data), nonce_hash))

\* int(P.x): raises for the neutral element and for an addition that raised
IntX(P) == IF Raised(P) THEN P ELSE IF is_neutral(P) THEN TypeError ELSE <<P[1]>>

\* curve.G * bytestoint_le(scalar_bytes).  MontgomeryCurve.__init__ asserts
\* that n * G is neutral, so the multiple of G by an integer is its multiple
\* by the residue of the integer modulo n; the 255-bit integer is reduced
\* byte by byte before the loop of __mul__ runs.
GMul(scalar_bytes) == point_mul(CurveG, bytestoint_le_mod(scalar_bytes, CurveN))

\* ECPrivateKey(scalar, curve).pubkey.point
PubPoint(d) == point_mul(CurveG, d)

\* the public key bytes of the Mikro scheme: LE(x(d*G))
PubKeyBytes(d) == inttobytes_le(PubPoint(d)[1], 32)

\* nonce = int((nonce_secret * curve.G).x) % curve.n
SignNonce(nonce_secret) == point_mul(CurveG, nonce_secret)[1] % CurveN

\* signature = pow(d, -1, n) * (nonce_secret - data_hash);  signature %= n
SignScalar(d, nonce_secret, data_hash) ==
  (PyModInv(d, CurveN) * ((nonce_secret - bytestoint_le_mod(data_hash, CurveN)) % CurveN))
    % CurveN

\* a check that reduces the recovered x-coordinate modulo n
SignCheck_reduced(d, signature, data_hash) ==
  << IntX(point_addition(point_mul(PubPoint(d), signature), GMul(data_hash)))[1] % CurveN >>

\* int((public_key.point * signature + curve.G * data_hash).x)
SignCheck(d, signature, data_hash) ==
  IntX(point_addition(point_mul(PubPoint(d), signature), GMul(data_hash)))

\* an iteration that lets the failed check reach the caller
SignOutcome_raises(nonce, nonce_hash, signature, check) ==
  IF Raised(check) \/ check[1] # nonce
  THEN [raised |-> TRUE, accepted |-> FALSE, sig |-> <<>>]
  ELSE [raised |-> FALSE, accepted |-> TRUE,
        sig |-> Slice(nonce_hash, 0, 16) \o inttobytes_le(signature, 32)]

\* if check == nonce: return bytes(nonce_hash[:16] + inttobytes_le(signature, 32))
SignOutcome(nonce, nonce_hash, signature, check) ==
  IF Raised(check)
  THEN [raised |-> TRUE, accepted |-> FALSE, sig |-> <<>>]
  ELSE IF check[1] = nonce
  THEN [raised |-> FALSE, accepted |-> TRUE,
        sig |-> Slice(nonce_hash, 0, 16) \o inttobytes_le(signature, 32)]
  ELSE [raised |-> FALSE, accepted |-> FALSE, sig |-> <<>>]

\* the iteration from the point where signature is computed
SignWithScalar(d, nonce, nonce_hash, data_hash, signature) ==
  SignOutcome(nonce, nonce_hash, signature, SignCheck(d, signature, data_hash))

\* the iteration from the point where data_hash is computed
SignWithDataHash(d, nonce_secret, nonce, nonce_hash, data_hash) ==
  SignWithScalar(d, nonce, nonce_hash, data_hash, SignScalar(d, nonce_secret, data_hash))

\* the iteration from the point where nonce_hash is computed
SignWithNonceHash(data, d, nonce_secret, nonce, nonce_hash) ==
  SignWithDataHash(d, nonce_secret, nonce, nonce_hash,
                   DataHash(data, Slice(nonce_hash, 0, 16)))

\* the iteration from the point where nonce is computed
SignWithNonce(data, d, nonce_secret, nonce) ==
  SignWithNonceHash(data, d, nonce_secret, nonce, mikro_sha256(inttobytes_le(nonce, 32)))

\* one iteration of the while loop of mikro_kcdsa_sign with the drawn
\* nonce_secret: [raised |-> TRUE], or accepted with the returned bytes,
\* or rejected
SignAttempt(data, d, nonce_secret) ==
  SignWithNonce(data, d, nonce_secret, SignNonce(nonce_secret))

\* x^3 + a*x^2 + x
CurveRhs(x) == FAdd(FAdd(FPow(x, 3), FMul(CurveA, FPow(x, 2))), x)

\* nonce = int((public_key * signature + curve.G * data_hash).x)
VerifyNonce(P, sbits, data_hash) ==
  IntX(point_addition(point_mul_bits(P, sbits), GMul(data_hash)))

\* a comparison that reduces the recovered x-coordinate modulo n first
VerifyCandidate_reduced(nonce, nonce_hash) ==
  IF Raised(nonce) THEN nonce
  ELSE << Slice(mikro_sha256(inttobytes_le(nonce[1] % CurveN, 32)), 0, Len(nonce_hash))
            = nonce_hash >>

\* mikro_sha256(inttobytes_le(nonce, 32))[:len(nonce_hash)] == nonce_hash,
\* or the exception that computing nonce raised
VerifyCandidate(nonce, nonce_hash) ==
  IF Raised(nonce) THEN nonce
  ELSE << Slice(mikro_sha256(inttobytes_le(nonce[1], 32)), 0, Len(nonce_hash)) = nonce_hash >>

\* the loop over public_keys stopping after the first point
VerifyEither_firstOnly(first, second) == first

\* the loop over public_keys: the second point is tried when the first one
\* did not match
VerifyEither(first, second) == IF first = <<FALSE>> THEN second ELSE first

VerifyLoop(x, YY, sbits, data_hash, nonce_hash) ==
  VerifyEither(VerifyCandidate(VerifyNonce(<<x, YY[1]>>, sbits, data_hash), nonce_hash),
               VerifyCandidate(VerifyNonce(<<x, YY[2]>>, sbits, data_hash), nonce_hash))

\* mikro_kcdsa_verify from the point where YY is computed: iterating over
\* None raises TypeError, reading nonce_hash[i] past its end raises IndexError
VerifyWithRoots(data, signature, x, YY) ==
  IF YY = None THEN TypeError
  ELSE IF Len(signature) < 16 THEN IndexError
  ELSE VerifyLoop(x, YY, BitsOfBytesLE(Slice(signature, 16, Len(signature))),
                  DataHash(data, Slice(signature, 0, 16)), Slice(signature, 0, 16))

\* mikro_kcdsa_verify(data, signature, public_key) with the non-residue z that
\* the square root draws: <<TRUE>>, <<FALSE>>, or the exception it raises
mikro_kcdsa_verify(data, signature, public_key, z) ==
  VerifyWithRoots(data, signature, bytestoint_le_mod(public_key, CurveP),
                  fsqrt(CurveRhs(bytestoint_le_mod(public_key, CurveP)), z))

(***************************************************************************)
(* src/npk.py: strings and struct fields.  A Python str is the sequence of *)
(* its code points; bytes.decode() and str.encode() are UTF-8, strict.     *)
(* A call that can raise returns <<value>>, or the raised exception.       *)
(***************************************************************************)
ValueError == <<"raise", "ValueError", "">>
StructError == <<"raise", "struct.error", "">>
AssertionError == <<"raise", "AssertionError", "">>
UnicodeDecodeError == <<"raise", "UnicodeDecodeError", "">>

\* str.encode() of one character (surrogates, which raise, are not used)
EncodeChar(c) ==
  IF c < 128 THEN <<c>>
  ELSE IF c < 2048 THEN <<192 + (c \div 64), 128 + (c % 64)>>
  ELSE IF c < 65536
  THEN <<224 + (c \div 4096), 128 + ((c \div 64) % 64), 128 + (c % 64)>>
  ELSE <<240 + (c \div 262144), 128 + ((c \div 4096) % 64),
         128 + ((c \div 64) % 64), 128 + (c % 64)>>

\* str.encode()
StrEncode(s) == Concat([j \in 1..Len(s) |-> EncodeChar(s[j])])

\* b[j] is a UTF-8 continuation byte
IsCont(b, j) == j <= Len(b) /\ b[j] >= 128 /\ b[j] <= 191

\* bytes.decode() from the 1-based position i on, acc being the characters
\* decoded so far
RECURSIVE Utf8Decode(_, _, _)
Utf8Decode(b, i, acc) ==
  IF i > Len(b) THEN <<acc>>
  ELSE IF b[i] < 128 THEN Utf8Decode(b, i + 1, Append(acc, b[i]))
  ELSE IF b[i] >= 194 /\ b[i] <= 223
  THEN IF IsCont(b, i + 1)
       THEN Utf8Decode(b, i + 2, Append(acc, (b[i] - 192) * 64 + (b[i + 1] - 128)))
       ELSE UnicodeDecodeError
  ELSE IF b[i] >= 224 /\ b[i] <= 239
  THEN IF /\ IsCont(b, i + 1)
          /\ IsCont(b, i + 2)
          /\ (b[i] = 224 => b[i + 1] >= 160)
          /\ (b[i] = 237 => b[i + 1] <= 159)
       THEN Utf8Decode(b, i + 3,
              Append(acc, (b[i] - 224) * 4096 + (b[i + 1] - 128) * 64 + (b[i + 2] - 128)))
       ELSE UnicodeDecodeError
  ELSE IF b[i] >= 240 /\ b[i] <= 244
  THEN IF /\ IsCont(b, i + 1)
          /\ IsCont(b, i + 2)
          /\ IsCont(b, i + 3)
          /\ (b[i] = 240 => b[i + 1] >= 144)
          /\ (b[i] = 244 => b[i + 1] <= 143)
       THEN Utf8Decode(b, i + 4,
              Append(acc, (b[i] - 240) * 262144 + (b[i + 1] - 128) * 4096
                            + (b[i + 2] - 128) * 64 + (b[i + 3] - 128)))
       ELSE UnicodeDecodeError
  ELSE UnicodeDecodeError

\* bytes.decode()
BytesDecode(b) == Utf8Decode(b, 1, <<>>)

\* bytes.ljust(n, b'\x00')
Ljust(b, n) == IF Len(b) >= n THEN b ELSE b \o Zeros(n - Len(b))

\* struct.pack of an 'Ns' field: the bytes cut or zero-padded to n
PackS(b, n) == Ljust(Slice(b, 0, n), n)

\* int.from_bytes(b, 'little') for values below 2^31
RECURSIVE bytestoint_le(_)
bytestoint_le(b) == IF b = <<>> THEN 0 ELSE b[1] + 256 * bytestoint_le(Tail(b))

\* str(n) for n >= 0
RECURSIVE IntToStr(_)
IntToStr(n) == IF n < 10 THEN <<48 + n>> ELSE Append(IntToStr(n \div 10), 48 + (n % 10))

\* int(s) for a string of decimal digits; any other string used here raises
RECURSIVE StrToIntLoop(_, _, _)
StrToIntLoop(s, i, acc) ==
  IF i > Len(s) THEN <<acc>>
  ELSE IF s[i] < 48 \/ s[i] > 57 THEN ValueError
  ELSE StrToIntLoop(s, i + 1, 10 * acc + (s[i] - 48))
StrToInt(s) == IF s = <<>> THEN ValueError ELSE StrToIntLoop(s, 1, 0)

\* value.split('.')
RECURSIVE SplitLoop(_, _, _, _)
SplitLoop(s, i, cur, out) ==
  IF i > Len(s) THEN Append(out, cur)
  ELSE IF s[i] = 46 THEN SplitLoop(s, i + 1, <<>>, Append(out, cur))
  ELSE SplitLoop(s, i + 1, Append(cur, s[i]), out)
SplitDot(s) == SplitLoop(s, 1, <<>>, <<>>)

\* the strings 'alpha', 'beta', 'rc', 'final', 'test', 'unknown' and '.'
STR_alpha == <<97, 108, 112, 104, 97>>
STR_beta == <<98, 101, 116, 97>>
STR_rc == <<114, 99>>
STR_final == <<102, 105, 110, 97, 108>>
STR_test == <<116, 101, 115, 116>>
STR_unknown == <<117, 110, 107, 110, 111, 119, 110>>
STR_dot == <<46>>

(***************************************************************************)
(* src/npk.py: NpkNameInfo.                                                *)
(***************************************************************************)
\* a decoding that leaves bit 0x80 in the revision of a test build
DecodeBuild_noMask(revision, build) ==
  IF build = 97 THEN <<revision, STR_alpha>>
  ELSE IF build = 98 THEN <<revision, STR_beta>>
  ELSE IF build = 99 THEN <<revision, STR_rc>>
  ELSE IF build = 102
  THEN IF revision >= 128 THEN <<revision, STR_test>> ELSE <<revision, STR_final>>
  ELSE <<revision, STR_unknown>>

\* the build name and the revision that decode_version derives from the
\* bytes revision and build
DecodeBuild(revision, build) ==
  IF build = 97 THEN <<revision, STR_alpha>>
  ELSE IF build = 98 THEN <<revision, STR_beta>>
  ELSE IF build = 99 THEN <<revision, STR_rc>>
  ELSE IF build = 102
  THEN IF revision >= 128 THEN <<revision - 128, STR_test>> ELSE <<revision, STR_final>>
  ELSE <<revision, STR_unknown>>

\* f'{major}.{minor}.{revision}.{build}'
FormatVersion(major, minor, rb) ==
  IntToStr(major) \o STR_dot \o IntToStr(minor) \o STR_dot \o IntToStr(rb[1])
    \o STR_dot \o rb[2]

\* NpkNameInfo.decode_version(value): value = revision, build, minor, major
decode_version(value) ==
  FormatVersion(value[4], value[3], DecodeBuild(value[1], value[2]))

\* struct.pack('4B', revision, build, minor, major)
PackVersion(revision, build, minor, major) ==
  IF revision > 255 \/ minor > 255 \/ major > 255 THEN StructError
  ELSE << <<revision, build, minor, major>> >>

\* the branches of encode_version on s[3], the three numbers being parsed
EncodeBuild(major, minor, revision, build) ==
  IF Raised(major) THEN major
  ELSE IF Raised(minor) THEN minor
  ELSE IF Raised(revision) THEN revision
  ELSE IF build = STR_alpha THEN PackVersion(revision[1], 97, minor[1], major[1])
  ELSE IF build = STR_beta THEN PackVersion(revision[1], 98, minor[1], major[1])
  ELSE IF build = STR_rc THEN PackVersion(revision[1], 99, minor[1], major[1])
  ELSE IF build = STR_final
  THEN PackVersion(revision[1] % 128, 102, minor[1], major[1])
  ELSE PackVersion(IF (revision[1] \div 128) % 2 = 1 THEN revision[1]
                   ELSE revision[1] + 128,
                   102, minor[1], major[1])

\* encode_version on the split string: s[3] raises IndexError when it is
\* evaluated for fewer than four fields
EncodeFields(s) ==
  IF Len(s) # 4 /\ Len(s) < 4 THEN IndexError
  ELSE IF Len(s) # 4 /\ s[4] \in {STR_alpha, STR_beta, STR_rc, STR_final, STR_test}
  THEN ValueError
  ELSE EncodeBuild(StrToInt(s[1]), StrToInt(s[2]), StrToInt(s[3]), s[4])

\* NpkNameInfo.encode_version(value)
encode_version(value) == EncodeFields(SplitDot(value))

\* a datetime is <<"datetime", t>> with t its POSIX time in whole seconds
fromtimestamp(t) == <<"datetime", t>>
timestamp(dt) == dt[2]

\* NpkNameInfo.__init__ from the point where the version is encoded
NameInfoFields(name, version, build_time, unknow) ==
  IF Raised(version) THEN version
  ELSE << [name |-> Ljust(StrEncode(Slice(name, 0, 16)), 16),
           version |-> version[1],
           build_time |-> timestamp(build_time),
           unknow |-> unknow] >>

\* NpkNameInfo(name, version, build_time, _unknow)
NpkNameInfo(name, version, build_time, unknow) ==
  NameInfoFields(name, encode_version(version), build_time, unknow)

\* NpkNameInfo.serialize: struct.pack('<16s4sI12s', ...)
serialize(info) ==
  PackS(info.name, 16) \o PackS(info.version, 4) \o inttobytes_le(info.build_time, 4)
    \o PackS(info.unknow, 12)

\* unserialize_from from the point where _name is decoded
UnserializeDecoded(name, data) ==
  IF Raised(name) THEN name
  ELSE NpkNameInfo(name[1], decode_version(Slice(data, 16, 20)),
                   fromtimestamp(bytestoint_le(Slice(data, 20, 24))),
                   Slice(data, 24, 36))

\* NpkNameInfo.unserialize_from(data)
unserialize_from(data) ==
  IF Len(data) # 36 THEN AssertionError
  ELSE UnserializeDecoded(BytesDecode(Slice(data, 0, 16)), data)

(***************************************************************************)
(* src/npk.py: NpkPartID, NpkPartItem and NovaPackage.  A part is the      *)
(* record [id, data]; data is <<"bytes", b>> for a bytes body and          *)
(* <<"NpkNameInfo", info>> for a structured record.  A container is the    *)
(* sequence _parts.                                                        *)
(***************************************************************************)
NAME_INFO == 1
DESCRIPTION == 2
DEPENDENCIES == 3
SIGNATURE == 9
HEADER == 25

\* the values of the enumeration NpkPartID
NpkPartIDs == {1, 2, 3, 4, 7, 8, 9, 16, 17, 18, 19, 20, 21, 22, 23, 24, 25}

BytesData(b) == <<"bytes", b>>
InfoData(info) == <<"NpkNameInfo", info>>

\* isinstance(part.data, bytes)
IsBytes(data) == data[1] = "bytes"

NpkPartItem(id, data) == [id |-> id, data |-> data]

\* len(part.data): NpkNameInfo.__len__ is struct.calcsize('<16s4sI12s') = 36
PartLen(part) == IF IsBytes(part.data) THEN Len(part.data[2]) ELSE 36

\* the bytes written or hashed for the body of a part
PartBody(part) == IF IsBytes(part.data) THEN part.data[2] ELSE serialize(part.data[2])

\* struct.pack('<HI', part.id.value, len(part.data))
PartHeader(part) == <<part.id % 256, part.id \div 256>> \o inttobytes_le(PartLen(part), 4)

\* a digest loop that goes on after the header of a SIGNATURE part
DigestUpdates_noBreak(parts) ==
  Concat([j \in 1..Len(parts) |->
            IF parts[j].id = HEADER THEN <<>>
            ELSE IF parts[j].id = SIGNATURE \/ PartLen(parts[j]) = 0
            THEN << PartHeader(parts[j]) >>
            ELSE << PartHeader(parts[j]), PartBody(parts[j]) >>])

\* NovaPackage.get_digest: the arguments of the successive hash_fnc.update
\* calls.  A HEADER part is skipped, the loop ends after the header of a
\* SIGNATURE part, and a body is fed when part.data is truthy.
RECURSIVE DigestUpdates(_)
DigestUpdates(parts) ==
  IF parts = <<>> THEN <<>>
  ELSE IF Head(parts).id = HEADER THEN DigestUpdates(Tail(parts))
  ELSE IF Head(parts).id = SIGNATURE THEN << PartHeader(Head(parts)) >>
  ELSE IF PartLen(Head(parts)) > 0
  THEN << PartHeader(Head(parts)), PartBody(Head(parts)) >> \o DigestUpdates(Tail(parts))
  ELSE << PartHeader(Head(parts)) >> \o DigestUpdates(Tail(parts))

\* a digest loop that feeds the header and the body of every part
DigestStream_allBodies(parts) ==
  Concat([j \in 1..Len(parts) |-> PartHeader(parts[j]) \o PartBody(parts[j])])

\* a digest loop that feeds the headers alone
DigestStream_headersOnly(parts) ==
  Concat([j \in 1..Len(parts) |->
            IF parts[j].id = HEADER THEN <<>> ELSE PartHeader(parts[j])])

\* the byte stream that get_digest feeds to the hash function
DigestStream(parts) == Concat(DigestUpdates(parts))

\* NovaPackage.__init__: the part appended for (part_id, part_data), as
\* <<part>>, or the exception raised
ParsedPart(part_id, part_data, info) ==
  IF part_id = NAME_INFO
  THEN IF Raised(info) THEN info ELSE << NpkPartItem(part_id, InfoData(info[1])) >>
  ELSE IF part_id \notin NpkPartIDs THEN ValueError
  ELSE << NpkPartItem(part_id, BytesData(part_data)) >>

\* the while loop of NovaPackage.__init__ from offset on: <<_parts>>, or the
\* exception raised.  struct.unpack_from needs six bytes; the slice
\* data[offset:offset+part_size] is cut at the end of the buffer.
RECURSIVE ParseLoop(_, _, _)
ParseStep(data, offset, parts, part_size, part) ==
  IF Raised(part) THEN part
  ELSE ParseLoop(data, offset + 6 + part_size, Append(parts, part[1]))
ParseAt(data, offset, parts, part_id, part_size, part_data) ==
  ParseStep(data, offset, parts, part_size,
            ParsedPart(part_id, part_data,
                       IF part_id = NAME_INFO THEN unserialize_from(part_data)
                       ELSE <<>>))
ParseLoop(data, offset, parts) ==
  IF offset >= Len(data) THEN <<parts>>
  ELSE IF Len(data) - offset < 6 THEN StructError
  ELSE ParseAt(data, offset, parts,
               bytestoint_le(Slice(data, offset, offset + 2)),
               bytestoint_le(Slice(data, offset + 2, offset + 6)),
               Slice(data, offset + 6,
                     offset + 6 + bytestoint_le(Slice(data, offset + 2, offset + 6))))

\* NovaPackage(data)
NovaPackage(data) == ParseLoop(data, 0, <<>>)

\* a lookup that returns the last part tagged id
FirstIndex_last(parts, id) ==
  CHOOSE i \in 1..Len(parts) :
    parts[i].id = id /\ \A j \in (i + 1)..Len(parts) : parts[j].id # id

\* NovaPackage.__getitem__(id): <<_parts, i>> with i the 1-based position of
\* the first part tagged id, an empty part being appended if there is none
FirstIndex(parts, id) ==
  CHOOSE i \in 1..Len(parts) :
    parts[i].id = id /\ \A j \in 1..(i - 1) : parts[j].id # id
getitem(parts, id) ==
  IF \E i \in 1..Len(parts) : parts[i].id = id
  THEN <<parts, FirstIndex(parts, id)>>
  ELSE <<Append(parts, NpkPartItem(id, BytesData(<<>>))), Len(parts) + 1>>

\* an assignment that reaches every part with the tag of the part found
SetPartData_everyTagged(found, data) ==
  [j \in 1..Len(found[1]) |->
     IF found[1][j].id = found[1][found[2]].id
     THEN [found[1][j] EXCEPT !.data = data] ELSE found[1][j]]

\* self[id].data = data
SetPartData(found, data) == [found[1] EXCEPT ![found[2]].data = data]
setitem_data(parts, id, data) == SetPartData(getitem(parts, id), data)

\* NPK_MAGIC = 0xbad0f11e as struct.pack('<I', ...) writes it
NPK_MAGIC == <<30, 241, 208, 186>>

\* size += 6 + len(part.data)
RECURSIVE SaveSize(_)
SaveSize(parts) ==
  IF parts = <<>> THEN 0 ELSE 6 + PartLen(Head(parts)) + SaveSize(Tail(parts))

\* NovaPackage.save: the bytes written to the file
save(parts) ==
  NPK_MAGIC \o inttobytes_le(SaveSize(parts), 4)
    \o Concat([j \in 1..Len(parts) |-> PartHeader(parts[j]) \o PartBody(parts[j])])

\* a load that does not compare the size field with the length of the file
load_noSizeCheck(data) ==
  IF Slice(data, 0, 4) # NPK_MAGIC THEN AssertionError
  ELSE NovaPackage(Slice(data, 8, Len(data)))

\* NovaPackage.load on the bytes read from the file: <<_parts>>, or the
\* exception raised
load(data) ==
  IF Slice(data, 0, 4) # NPK_MAGIC THEN AssertionError
  ELSE IF Len(data) < 8 \/ Slice(data, 4, 8) # inttobytes_le(Len(data) - 8, 4)
  THEN AssertionError
  ELSE NovaPackage(Slice(data, 8, Len(data)))

(***************************************************************************)
(* The library hashes that NovaPackage.sign and verify pass to get_digest: *)
(* hashlib.new('SHA1') is FIPS 180 SHA-1; hashlib.new('SHA256') computes   *)
(* the function that the class SHA256 of src/sha256.py computes.           *)
(***************************************************************************)
SHA1_INITIAL_STATE ==
  << <<26437, 8961>>, <<61389, 43913>>, <<39098, 56574>>, <<4146, 21622>>,
     <<50130, 57840>> >>

\* the round constant of SHA-1 round t (0-based)
sha1_K(t) ==
  IF t < 20 THEN <<23170, 31129>>
  ELSE IF t < 40 THEN <<28377, 60321>>
  ELSE IF t < 60 THEN <<36635, 48348>>
  ELSE <<51810, 49622>>

\* the round function of SHA-1 round t
sha1_f(t, b, c, d) ==
  IF t < 20 THEN sha_ch(b, c, d)
  ELSE IF t >= 40 /\ t < 60 THEN sha_maj(b, c, d)
  ELSE Xor32(b, Xor32(c, d))

\* left rotation of a 32-bit word by n in 1..31
Lrot32(x, n) == Rrot32(x, 32 - n)

\* the message schedule: w has 16 words on entry and 80 on return
RECURSIVE sha1_expand(_)
sha1_expand(w) ==
  IF Len(w) >= 80 THEN w
  ELSE sha1_expand(Append(w,
         Lrot32(Xor32(Xor32(w[Len(w) - 2], w[Len(w) - 7]),
                      Xor32(w[Len(w) - 13], w[Len(w) - 15])), 1)))

\* one round: st = <<a, b, c, d, e>>
sha1_round(t, wt, st) ==
  << Add32(Add32(Add32(Add32(Lrot32(st[1], 5), sha1_f(t, st[2], st[3], st[4])), st[5]),
                 sha1_K(t)), wt),
     st[1], Lrot32(st[2], 30), st[3], st[4] >>

RECURSIVE sha1_rounds(_, _, _)
sha1_rounds(w, st, t) ==
  IF ~Evaluated(st) \/ t >= 80 THEN st
  ELSE sha1_rounds(w, sha1_round(t, w[t + 1], st), t + 1)

\* the compression of one 64-byte block
sha1_process_block(message, state) ==
  [j \in 1..5 |->
     Add32(state[j],
           sha1_rounds(sha1_expand([k \in 1..16 |->
                                      WordOfBytes(SubSeq(message, 4*k - 3, 4*k))]),
                       state, 0)[j])]

\* the message followed by 0x80, zeros and its bit length, a multiple of 64
Sha1Pad(data) ==
  data \o <<128>> \o Zeros((119 - Len(data)) % 64) \o PackLength(Len(data) * 8)

RECURSIVE Sha1Blocks(_, _)
Sha1Blocks(state, padded) ==
  IF ~Evaluated(state) \/ padded = <<>> THEN state
  ELSE Sha1Blocks(sha1_process_block(SubSeq(padded, 1, 64), state),
                  SubSeq(padded, 65, Len(padded)))

\* the digest of the stream fed to hashlib.new('SHA1')
hashlib_sha1(data) ==
  Concat([j \in 1..5 |-> BytesOfWord(Sha1Blocks(SHA1_INITIAL_STATE, Sha1Pad(data))[j])])

\* the digest of the stream fed to hashlib.new('SHA256')
hashlib_sha256(data) == std_sha256(data)

(***************************************************************************)
(* src/mikro.py: mikro_eddsa_sign and mikro_eddsa_verify.  Ed25519 itself  *)
(* (SHA-512 and the 255-bit twisted Edwards arithmetic of toyecc) is not   *)
(* computed: it is represented by an ideal deterministic signature scheme. *)
(* A key pair is a pair of 32-byte strings, the signature of a message is  *)
(* a 64-byte tag determined by the private key and the message, and a      *)
(* signature verifies exactly when it is the tag of the message under the  *)
(* private key that belongs to the presented public key.                   *)
(***************************************************************************)
EddsaKeyPairs ==
  << [private |-> [j \in 1..32 |-> 17], public |-> [j \in 1..32 |-> 34]],
     [private |-> [j \in 1..32 |-> 51], public |-> [j \in 1..32 |-> 68]] >>

\* the 64-byte tag of a non-empty message under a private key
EddsaTag(data, private_key) ==
  [j \in 1..64 |->
     IF j <= 32 THEN Xor8(data[((j - 1) % Len(data)) + 1], private_key[j])
     ELSE (data[((j - 1) % Len(data)) + 1] + private_key[j - 32] + j) % 256]

\* mikro_eddsa_sign(data, private_key)
mikro_eddsa_sign(data, private_key) == EddsaTag(data, private_key)

\* mikro_eddsa_verify(data, signature, public_key): EDDSASignature.decode
\* asserts that the signature has 64 bytes
mikro_eddsa_verify(data, signature, public_key) ==
  IF Len(signature) # 64 THEN AssertionError
  ELSE << \E k \in 1..Len(EddsaKeyPairs) :
            /\ EddsaKeyPairs[k].public = public_key
            /\ signature = EddsaTag(data, EddsaKeyPairs[k].private) >>

(***************************************************************************)
(* src/npk.py: NovaPackage.sign and NovaPackage.verify.                    *)
(***************************************************************************)
\* a sign that computes the digests before the SIGNATURE part has its length
WithPlaceholder_none(parts) == parts

\* self[NpkPartID.SIGNATURE].data = b'\0'*(20+48+64)
WithPlaceholder(parts) == setitem_data(parts, SIGNATURE, BytesData(Zeros(132)))

\* a signature body that stores the KCDSA signature before the SHA-1 digest
WithSignature_kcdsaFirst(parts, sha1_digest, kcdsa_signature, eddsa_signature) ==
  setitem_data(parts, SIGNATURE, BytesData(kcdsa_signature \o sha1_digest \o eddsa_signature))

\* self[NpkPartID.SIGNATURE].data = sha1_digest + kcdsa_signature + eddsa_signature
WithSignature(parts, sha1_digest, kcdsa_signature, eddsa_signature) ==
  setitem_data(parts, SIGNATURE, BytesData(sha1_digest \o kcdsa_signature \o eddsa_signature))

\* signature = self[NpkPartID.SIGNATURE].data
SignatureBody(parts) == PartBody(parts[getitem(parts, SIGNATURE)[2]])

\* the result of the three checks of verify on the outcomes c1 (a Boolean),
\* c2 and c3 (<<Boolean>> or a raised exception), as verify's returns
\* combine them
\* a verify that returns after the KCDSA check
VerifyResult_noEddsa(c1, c2, c3) ==
  IF ~c1 THEN <<FALSE>>
  ELSE IF Raised(c2) THEN c2
  ELSE IF ~c2[1] THEN <<FALSE>>
  ELSE <<TRUE>>

VerifyResult(c1, c2, c3) ==
  IF ~c1 THEN <<FALSE>>
  ELSE IF Raised(c2) THEN c2
  ELSE IF ~c2[1] THEN <<FALSE>>
  ELSE IF Raised(c3) THEN c3
  ELSE IF ~c3[1] THEN <<FALSE>>
  ELSE <<TRUE>>

(***************************************************************************)
(* Program state.  Several programs are modelled, each with its own initial  *)
(* condition and next-state relation; the variables of the programs that   *)
(* a specification does not run keep their idle values.                    *)
(***************************************************************************)
VARIABLES
  block,        \* the 16-byte block a caller of mikro_encode / mikro_decode holds
  block_in,     \* the argument of the last call
  block_op,     \* "none", "encode" or "decode": the last call
  block_steps,  \* number of calls made
  signer,       \* a call of mikro_kcdsa_sign: where it stands and what it holds
  verifier,     \* a call of mikro_kcdsa_verify: its arguments and its outcome
  package,      \* the _parts of a NovaPackage
  pkg_pc,       \* "idle", "built", "signed" or "sign_raised"
  signing,      \* the call of NovaPackage.sign: its keys and its digests
  tamper,       \* what was changed in the package after it was signed
  verdict,      \* the call of NovaPackage.verify: its keys, checks and result
  first,        \* the _parts of one of two packages whose digests are compared
  second,       \* the _parts of the other one
  edits,        \* number of changes made to the second package
  fed,          \* the byte streams get_digest fed to the hash function
  container,    \* the _parts of the package that is saved
  file,         \* the bytes of the file
  file_pc,      \* "idle", "built", "saved", "cut" or "damaged"
  loaded,       \* the call of NovaPackage.load: what it returned or raised
  held,         \* the _parts of a package that is accessed by tag
  access,       \* the last call of NovaPackage.__getitem__
  accesses,     \* number of calls of __getitem__ made
  ver,          \* the value a caller of encode_version / decode_version holds
  ver_in,       \* the argument of the last call
  ver_op,       \* "none", "encode" or "decode": the last call
  ver_steps,    \* number of calls made
  hasher,       \* an instance of SHA256: its class and its attributes
  updates,      \* the messages passed to update so far
  digested,     \* the last call of digest: when it was made and what it returned
  hash_steps,   \* number of calls of update and digest made
  enc,          \* a call of mikro_encode: its words and the sub-step it has reached
  fc,           \* the value a caller of NpkFileContainer.serialize / unserialize_from holds
  boot,         \* a call of patch_netinstall: the file and what it printed or raised
  xz            \* a call of find_7zXZ_data: its argument and what it returned

blockVars == <<block, block_in, block_op, block_steps>>
sigVars == <<signer, verifier>>
pkgVars == <<package, pkg_pc, signing, tamper, verdict>>
digVars == <<first, second, edits, fed>>
fileVars == <<container, file, file_pc, loaded>>
getVars == <<held, access, accesses>>
verVars == <<ver, ver_in, ver_op, ver_steps>>
hashVars == <<hasher, updates, digested, hash_steps>>
vars == <<blockVars, sigVars, pkgVars, digVars, fileVars, getVars, verVars, hashVars,
          enc, fc, boot, xz>>

BlockIdle ==
  /\ block = <<>>
  /\ block_in = <<>>
  /\ block_op = "none"
  /\ block_steps = 0

NotCalled == [called |-> FALSE, data |-> <<>>, signature |-> <<>>,
              public_key |-> <<>>, result |-> <<>>]

SigIdle ==
  /\ signer = [pc |-> "idle", data |-> <<>>, private_key |-> 0, tries |-> 0,
                nonce_secret |-> 0,
               signature |-> <<>>]
  /\ verifier = NotCalled

NotSigning == [kcdsa_private_key |-> 0, eddsa_private_key |-> <<>>,
               sha1_digest |-> <<>>, sha256_digest |-> <<>>,
               before |-> <<>>]

NotVerified == [called |-> FALSE, kcdsa_public_key |-> <<>>,
                eddsa_public_key |-> <<>>, sha1_digest |-> <<>>,
                sha256_digest |-> <<>>, signature |-> <<>>,
                c1 |-> FALSE, c2 |-> <<>>, c3 |-> <<>>, result |-> <<>>,
                before |-> <<>>]

PkgIdle ==
  /\ package = <<>>
  /\ pkg_pc = "idle"
  /\ signing = NotSigning
  /\ tamper = "none"
  /\ verdict = NotVerified

NotFed == [called |-> FALSE, first |-> <<>>, second |-> <<>>, updates |-> <<>>]

DigIdle ==
  /\ first = <<>>
  /\ second = <<>>
  /\ edits = 0
  /\ fed = NotFed

NotLoaded == [called |-> FALSE, result |-> <<>>]

FileIdle ==
  /\ container = <<>>
  /\ file = <<>>
  /\ file_pc = "idle"
  /\ loaded = NotLoaded

NotAccessed == [called |-> FALSE, id |-> 0, index |-> 0, before |-> <<>>]

GetIdle ==
  /\ held = <<>>
  /\ access = NotAccessed
  /\ accesses = 0

Idle == [pc |-> "idle"]

RoundIdle == enc = Idle

ContIdle == fc = Idle

BootIdle == boot = Idle

XzIdle == xz = Idle

VerIdle ==
  /\ ver = <<>>
  /\ ver_in = <<>>
  /\ ver_op = "none"
  /\ ver_steps = 0

NotDigested == [calls |-> 0, after |-> 0, blocks |-> <<>>, value |-> <<>>]

HashIdle ==
  /\ hasher = <<>>
  /\ updates = <<>>
  /\ digested = NotDigested
  /\ hash_steps = 0

(***************************************************************************)
(* The block-transform program: a caller holds one 16-byte block and       *)
(* applies mikro_encode / mikro_decode to it.                              *)
(***************************************************************************)
\* number of calls a run makes
MaxBlockSteps == 2

\* the little-endian words the input blocks are built from: 0, 2^32 - 1,
\* and a word with the sign bit and the lowest bit set
WordChoices == {<<0, 0, 0, 0>>, <<255, 255, 255, 255>>, <<1, 0, 0, 128>>}
BlockInputs ==
  {w1 \o w2 \o w3 \o w4 : w1 \in WordChoices, w2 \in WordChoices,
                          w3 \in WordChoices, w4 \in WordChoices}

InitBlock ==
  /\ RoundIdle
  /\ ContIdle
  /\ BootIdle
  /\ XzIdle
  /\ GetIdle
  /\ VerIdle
  /\ HashIdle
  /\ block \in BlockInputs
  /\ block_in = block
  /\ block_op = "none"
  /\ block_steps = 0
  /\ SigIdle
  /\ PkgIdle
  /\ DigIdle
  /\ FileIdle

\* block = mikro_encode(block)
Encode ==
  /\ block_steps < MaxBlockSteps
  /\ block' = mikro_encode(block)
  /\ block_in' = block
  /\ block_op' = "encode"
  /\ block_steps' = block_steps + 1
  /\ UNCHANGED <<enc, fc, boot, xz, getVars, verVars, hashVars, sigVars, pkgVars, digVars, fileVars>>

\* block = mikro_decode(block)
Decode ==
  /\ block_steps < MaxBlockSteps
  /\ block' = mikro_decode(block)
  /\ block_in' = block
  /\ block_op' = "decode"
  /\ block_steps' = block_steps + 1
  /\ UNCHANGED <<enc, fc, boot, xz, getVars, verVars, hashVars, sigVars, pkgVars, digVars, fileVars>>

NextBlock == Encode \/ Decode
SpecBlock == InitBlock /\ [][NextBlock]_vars

\* C1: mikro_encode and mikro_decode are mutual inverses on 16-byte blocks:
\* decoding the result of an encode call gives back its argument, and
\* encoding the result of a decode call gives back its argument.
C1_EncodeDecodeInverse ==
  /\ block_op = "encode" => mikro_decode(block) = block_in
  /\ block_op = "decode" => mikro_encode(block) = block_in

\* an encode call and a decode call have both run and changed the block
C1_Witness ==
  /\ block_steps = 2
  /\ block_op = "decode"
  /\ block # block_in
  /\ mikro_encode(block) = block_in

(***************************************************************************)
(* The signature program: mikro_kcdsa_sign(data, private_key) runs its     *)
(* retry loop, one nonce per iteration, until an iteration returns; a      *)
(* caller then hands a signature and a public key to mikro_kcdsa_verify.   *)
(***************************************************************************)
\* the nonces secure_rand_int_between(1, n - 1) is taken to draw: 1..MaxNonce
MaxNonce == 5
NonceDraws == 1..MaxNonce

\* the number of discarded iterations the signer counts
MaxTries == 1

\* the non-residues random.randint(1, p - 1) is taken to end the search of
\* _tonelli_shanks_sqrt with: the non-residues up to MaxZ
MaxZ == 6
QnrDraws == {z \in 1..MaxZ : is_qnr(z)}

\* the messages signed: the empty one and a 20-byte one
SigMessages == {<<>>, [j \in 1..20 |-> (37 * j) % 256]}

\* the private scalars, invertible modulo n: y(3*G) is even, y(777*G) is odd
PrivKeys == {3, 777}

InitSig ==
  /\ RoundIdle
  /\ ContIdle
  /\ BootIdle
  /\ XzIdle
  /\ GetIdle
  /\ VerIdle
  /\ HashIdle
  /\ BlockIdle
  /\ \E data \in SigMessages, d \in PrivKeys :
       signer = [pc |-> "loop", data |-> data, private_key |-> d, tries |-> 0,
                 nonce_secret |-> 0, signature |-> <<>>]
  /\ verifier = NotCalled
  /\ PkgIdle
  /\ DigIdle
  /\ FileIdle

\* SignAttempt for every message, private scalar and draw of the program,
\* computed once: the tuples <<data, d, nonce_secret, outcome>>
SignAttempts ==
  { <<data, d, nonce_secret, SignAttempt(data, d, nonce_secret)>> :
      data \in SigMessages, d \in PrivKeys, nonce_secret \in NonceDraws }

\* one iteration of the while loop of mikro_kcdsa_sign; nonce_secret is the
\* local variable of this name, 0 before the first draw
SignIterate ==
  /\ signer.pc = "loop"
  /\ \E a \in SignAttempts :
       \E nonce_secret \in {a[3]}, r \in {a[4]} :
         /\ a[1] = signer.data
         /\ a[2] = signer.private_key
         /\ signer' = IF r.raised
                     THEN [signer EXCEPT !.pc = "raised", !.nonce_secret = nonce_secret]
                     ELSE IF r.accepted
                     THEN [signer EXCEPT !.pc = "returned", !.nonce_secret = nonce_secret,
                                         !.signature = r.sig]
                     ELSE [signer EXCEPT !.nonce_secret = nonce_secret,
                                         !.tries =
                             IF signer.tries < MaxTries THEN signer.tries + 1
                             ELSE signer.tries]
  /\ UNCHANGED <<enc, fc, boot, xz, getVars, verVars, hashVars, blockVars, verifier, pkgVars, digVars, fileVars>>

\* the signatures a caller presents: the returned one, its prefixes of the
\* lengths 0, 15, 16 and 47, and the returned one followed by a zero byte
SignatureChoices(signature) ==
  {signature, signature \o <<0>>}
    \cup {Slice(signature, 0, l) : l \in {0, 15, 16, 47}}

\* the smallest draw k whose point k*G has an x-coordinate of n or more
UnreducedDraw ==
  CHOOSE k \in NonceDraws :
    /\ point_mul(CurveG, k)[1] >= CurveN
    /\ \A j \in NonceDraws : point_mul(CurveG, j)[1] >= CurveN => k <= j

\* the signature of data under d with the nonce secret k that commits to
\* the integer nonce: the first 16 bytes of its digest, then LE(s)
CommittedSignature(data, d, k, nonce) ==
  Slice(mikro_sha256(inttobytes_le(nonce, 32)), 0, 16)
    \o inttobytes_le(
         SignScalar(d, k, DataHash(data, Slice(mikro_sha256(inttobytes_le(nonce, 32)), 0, 16))),
         32)

\* signatures of another signer, made with the draw UnreducedDraw: one
\* commits to x(k*G), one to x(k*G) mod n
ForeignSignatures(data, d) ==
  { CommittedSignature(data, d, UnreducedDraw, point_mul(CurveG, UnreducedDraw)[1]),
    CommittedSignature(data, d, UnreducedDraw, point_mul(CurveG, UnreducedDraw)[1] % CurveN) }

\* x-coordinates presented as public keys besides the signer's own
ForeignX == {0, 3, 19247}

\* the public keys a caller presents
PublicKeyChoices(d) == {PubKeyBytes(d)} \cup {inttobytes_le(x, 32) : x \in ForeignX}

\* mikro_kcdsa_verify(data, signature, public_key) on the signed data, with
\* the returned signature or the signer's public key or both; the
\* signatures of another signer are presented with the signer's public key
Verify ==
  /\ signer.pc = "returned"
  /\ ~verifier.called
  /\ \E signature \in SignatureChoices(signer.signature)
                         \cup ForeignSignatures(signer.data, signer.private_key),
        public_key \in PublicKeyChoices(signer.private_key),
        z \in QnrDraws :
       /\ signature = signer.signature \/ public_key = PubKeyBytes(signer.private_key)
       /\ verifier' = [called |-> TRUE, data |-> signer.data,
                       signature |-> signature, public_key |-> public_key,
                       result |-> mikro_kcdsa_verify(signer.data, signature, public_key, z)]
  /\ UNCHANGED <<enc, fc, boot, xz, getVars, verVars, hashVars, blockVars, signer, pkgVars, digVars, fileVars>>

NextSig == SignIterate \/ Verify
SpecSig == InitSig /\ [][NextSig]_vars

\* y^2 = x^3 + a*x^2 + x has no solution for the x of the public key
NoSquareRoot(public_key) == is_qnr(CurveRhs(bytestoint_le_mod(public_key, CurveP)))

\* C2: a signature that mikro_kcdsa_sign returned for a message under the
\* private scalar d verifies as true for that message under the public key
\* LE(x(d*G)), whichever nonce the retry loop accepted.
C2_SignThenVerify ==
  ( /\ verifier.called
    /\ verifier.data = signer.data
    /\ verifier.signature = signer.signature
    /\ verifier.public_key = PubKeyBytes(signer.private_key) )
  => verifier.result = <<TRUE>>

\* the signer returned after discarding a nonce, and the signature verified
C2_Witness ==
  /\ signer.pc = "returned"
  /\ signer.tries >= 1
  /\ verifier.called
  /\ verifier.signature = signer.signature
  /\ verifier.public_key = PubKeyBytes(signer.private_key)
  /\ verifier.result = <<TRUE>>

\* C7: mikro_kcdsa_verify returns false, without raising, for every
\* signature whose length is not 48 bytes.
C7_WrongLengthRejected ==
  (verifier.called /\ Len(verifier.signature) # 48) => verifier.result = <<FALSE>>

\* C8: mikro_kcdsa_verify returns false, without raising, when the public
\* x-coordinate has no square root of x^3 + a*x^2 + x (x = 0 included).
C8_NoRootRejected ==
  (verifier.called /\ NoSquareRoot(verifier.public_key)) => verifier.result = <<FALSE>>

(***************************************************************************)
(* The package program: a NovaPackage is built from parts, signed with     *)
(* NovaPackage.sign, possibly changed afterwards, and checked with         *)
(* NovaPackage.verify.                                                     *)
(***************************************************************************)
\* the KCDSA private scalars: the signer's, and one whose public key a
\* verifier may present instead
PkgKcdsaKeys == <<777, 3>>

\* NpkNameInfo('test', '7.15.1.final', datetime.fromtimestamp(1700000000))
PkgNameInfo ==
  NpkNameInfo(STR_test, <<55, 46, 49, 53, 46, 49>> \o STR_dot \o STR_final,
              fromtimestamp(1700000000), Zeros(12))[1]

\* the bodies b'demo' and b'd'
BODY_demo == <<100, 101, 109, 111>>
BODY_d == <<100>>

\* the packages built: NAME_INFO, DESCRIPTION and an empty SIGNATURE part in
\* this order; a HEADER part first and no SIGNATURE part; and the
\* DESCRIPTION part placed after the SIGNATURE part, with a second SIGNATURE
\* part after it
PkgContainers ==
  { << NpkPartItem(NAME_INFO, InfoData(PkgNameInfo)),
       NpkPartItem(DESCRIPTION, BytesData(BODY_demo)),
       NpkPartItem(SIGNATURE, BytesData(<<>>)) >>,
    << NpkPartItem(HEADER, BytesData(<<1, 2>>)),
       NpkPartItem(NAME_INFO, InfoData(PkgNameInfo)),
       NpkPartItem(DESCRIPTION, BytesData(BODY_d)) >>,
    << NpkPartItem(NAME_INFO, InfoData(PkgNameInfo)),
       NpkPartItem(SIGNATURE, BytesData(<<>>)),
       NpkPartItem(DESCRIPTION, BytesData(BODY_d)),
       NpkPartItem(SIGNATURE, BytesData(<<9>>)) >> }

InitPkg ==
  /\ RoundIdle
  /\ ContIdle
  /\ BootIdle
  /\ XzIdle
  /\ GetIdle
  /\ VerIdle
  /\ HashIdle
  /\ BlockIdle
  /\ SigIdle
  /\ DigIdle
  /\ FileIdle
  /\ package \in PkgContainers
  /\ pkg_pc = "built"
  /\ signing = [NotSigning EXCEPT !.kcdsa_private_key = PkgKcdsaKeys[1],
                                  !.eddsa_private_key = EddsaKeyPairs[1].private]
  /\ tamper = "none"
  /\ verdict = NotVerified

\* NovaPackage.sign(kcdsa_private_key, eddsa_private_key); nonce_secret is
\* the draw of the iteration of mikro_kcdsa_sign that ends its loop
PkgSign ==
  /\ pkg_pc = "built"
  /\ ~verdict.called
  /\ \E placed \in {WithPlaceholder(package)} :
       \E sha1_digest \in {hashlib_sha1(DigestStream(placed))},
          sha256_digest \in {hashlib_sha256(DigestStream(placed))} :
         \E nonce_secret \in NonceDraws :
           \E r \in {SignAttempt(Slice(sha256_digest, 0, 20),
                                 signing.kcdsa_private_key, nonce_secret)} :
             /\ r.raised \/ r.accepted
             /\ signing' = [signing EXCEPT !.sha1_digest = sha1_digest,
                                           !.sha256_digest = sha256_digest,
                                           !.before = package]
             /\ IF r.raised
                THEN /\ pkg_pc' = "sign_raised"
                     /\ package' = placed
                ELSE /\ pkg_pc' = "signed"
                     /\ package' =
                          WithSignature(placed, sha1_digest, r.sig,
                                        mikro_eddsa_sign(sha256_digest,
                                                         signing.eddsa_private_key))
  /\ UNCHANGED <<enc, fc, boot, xz, getVars, verVars, hashVars, blockVars, sigVars, digVars, fileVars, tamper, verdict>>

\* the body with the lowest bit of its byte at the 0-based offset changed
FlipByte(body, offset) == [body EXCEPT ![offset + 1] = Xor8(body[offset + 1], 1)]

\* the offsets at which a body is changed: its first and its last byte
FlipOffsets(body) == {0, Len(body) - 1}

\* one byte of the body of the DESCRIPTION part is changed
TamperDescription ==
  /\ pkg_pc = "signed"
  /\ tamper = "none"
  /\ ~verdict.called
  /\ \E i \in 1..Len(package) :
       /\ package[i].id = DESCRIPTION
       /\ \E offset \in FlipOffsets(package[i].data[2]) :
            package' = [package EXCEPT
                          ![i].data = BytesData(FlipByte(package[i].data[2], offset))]
  /\ tamper' = "description"
  /\ UNCHANGED <<enc, fc, boot, xz, getVars, verVars, hashVars, blockVars, sigVars, digVars, fileVars, pkg_pc, signing, verdict>>

\* the SHA-1 digest of the package when its SIGNATURE part holds n bytes
Sha1WithBodyOf(parts, n) ==
  hashlib_sha1(DigestStream(setitem_data(parts, SIGNATURE, BytesData(Zeros(n)))))

\* the bodies that replace the signature body: one byte changed in the SHA-1
\* digest, in the KCDSA signature or in the EdDSA signature, the 132 zero
\* bytes of the placeholder, the first 20 bytes alone, and the 20 bytes of
\* the SHA-1 digest of the package with a 20-byte SIGNATURE part
SignatureReplacements(parts, body) ==
  { <<"sha1", FlipByte(body, 0)>>, <<"kcdsa", FlipByte(body, 20)>>,
    <<"eddsa", FlipByte(body, 68)>>, <<"placeholder", Zeros(132)>>,
    <<"short", Slice(body, 0, 20)>>, <<"digest_only", Sha1WithBodyOf(parts, 20)>> }

\* the body of the SIGNATURE part is replaced
TamperSignature ==
  /\ pkg_pc = "signed"
  /\ tamper = "none"
  /\ ~verdict.called
  /\ \E replacement \in SignatureReplacements(package, SignatureBody(package)) :
       /\ package' = setitem_data(package, SIGNATURE, BytesData(replacement[2]))
       /\ tamper' = replacement[1]
  /\ UNCHANGED <<enc, fc, boot, xz, getVars, verVars, hashVars, blockVars, sigVars, digVars, fileVars, pkg_pc, signing, verdict>>

\* the pairs of public keys a verifier presents: the signer's, or one of
\* the two replaced by the public key of another key pair
PkgPublicKeys ==
  { <<PubKeyBytes(PkgKcdsaKeys[1]), EddsaKeyPairs[1].public>>,
    <<PubKeyBytes(PkgKcdsaKeys[2]), EddsaKeyPairs[1].public>>,
    <<PubKeyBytes(PkgKcdsaKeys[1]), EddsaKeyPairs[2].public>> }

\* NovaPackage.verify(kcdsa_public_key, eddsa_public_key).  c1, c2 and c3
\* record what each of the three checks gives on the stored signature,
\* whether or not verify gets to evaluate it.
PkgVerify ==
  /\ pkg_pc # "sign_raised"
  /\ ~verdict.called
  /\ \E sha1_digest \in {hashlib_sha1(DigestStream(package))},
        sha256_digest \in {hashlib_sha256(DigestStream(package))},
        found \in {getitem(package, SIGNATURE)} :
       \E signature \in {PartBody(found[1][found[2]])},
          keys \in PkgPublicKeys, z \in QnrDraws :
         \E c1 \in {sha1_digest = Slice(signature, 0, 20)},
            c2 \in {mikro_kcdsa_verify(Slice(sha256_digest, 0, 20),
                                       Slice(signature, 20, 68), keys[1], z)},
            c3 \in {mikro_eddsa_verify(sha256_digest, Slice(signature, 68, 132),
                                       keys[2])} :
           /\ package' = found[1]
           /\ verdict' = [called |-> TRUE, kcdsa_public_key |-> keys[1],
                          eddsa_public_key |-> keys[2],
                          sha1_digest |-> sha1_digest,
                          sha256_digest |-> sha256_digest,
                          signature |-> signature,
                          c1 |-> c1, c2 |-> c2, c3 |-> c3,
                          result |-> VerifyResult(c1, c2, c3),
                          before |-> package]
  /\ UNCHANGED <<enc, fc, boot, xz, getVars, verVars, hashVars, blockVars, sigVars, digVars, fileVars, pkg_pc, signing, tamper>>

NextPkg == PkgSign \/ TamperDescription \/ TamperSignature \/ PkgVerify
SpecPkg == InitPkg /\ [][NextPkg]_vars

\* the tags of the parts of a package, in order
Tags(parts) == [j \in 1..Len(parts) |-> parts[j].id]

\* verify was called with the public keys that match the keys of sign
MatchingKeys ==
  /\ verdict.kcdsa_public_key = PubKeyBytes(signing.kcdsa_private_key)
  /\ \E k \in 1..Len(EddsaKeyPairs) :
       /\ EddsaKeyPairs[k].private = signing.eddsa_private_key
       /\ EddsaKeyPairs[k].public = verdict.eddsa_public_key

\* C3: for a package holding a NAME_INFO part, a DESCRIPTION part and an
\* empty SIGNATURE part, in this order, verify with the matching public keys
\* returns true after sign, and returns false after one byte of the
\* DESCRIPTION body was changed following sign.
C3_SignVerifyTamper ==
  ( /\ verdict.called
    /\ pkg_pc = "signed"
    /\ MatchingKeys
    /\ Tags(package) = <<NAME_INFO, DESCRIPTION, SIGNATURE>> )
  => /\ tamper = "none" => verdict.result = <<TRUE>>
     /\ tamper = "description" => verdict.result = <<FALSE>>

\* the signed package of the three parts had the last byte of b'demo'
\* changed, and verify with the matching keys returned false
C3_Witness ==
  /\ verdict.called
  /\ pkg_pc = "signed"
  /\ MatchingKeys
  /\ Tags(package) = <<NAME_INFO, DESCRIPTION, SIGNATURE>>
  /\ tamper = "description"
  /\ package[2].data = BytesData(FlipByte(BODY_demo, 3))
  /\ Len(verdict.signature) = 132
  /\ verdict.result = <<FALSE>>

C5_DigestIgnoresSignatureBody ==
  ( /\ verdict.called
    /\ pkg_pc = "signed"
    /\ tamper \in {"none", "sha1", "kcdsa", "eddsa", "placeholder"} )
  => /\ verdict.sha1_digest = signing.sha1_digest
     /\ verdict.sha256_digest = signing.sha256_digest

\* verify recomputed, over the final 132-byte signature body, the digests
\* that sign computed over the placeholder
C5_Witness ==
  /\ verdict.called
  /\ pkg_pc = "signed"
  /\ tamper = "none"
  /\ Len(verdict.signature) = 132
  /\ verdict.signature # Zeros(132)
  /\ Len(signing.sha1_digest) = 20
  /\ Len(signing.sha256_digest) = 32
  /\ verdict.sha1_digest = signing.sha1_digest
  /\ verdict.sha256_digest = signing.sha256_digest

(***************************************************************************)
(* The digest program: two packages start equal, the second one is changed *)
(* (a tag, the length of a body, a byte of a body, the order of two        *)
(* parts), and get_digest runs on both with a hash function that records   *)
(* what it is fed.                                                         *)
(***************************************************************************)
\* number of changes made to the second package
MaxEdits == 2

\* the packages compared: one with a HEADER part and a part after the
\* SIGNATURE part, one without a SIGNATURE part and with an empty body
DigestContainers ==
  { << NpkPartItem(HEADER, BytesData(<<1, 2>>)),
       NpkPartItem(NAME_INFO, InfoData(PkgNameInfo)),
       NpkPartItem(DESCRIPTION, BytesData(BODY_d)),
       NpkPartItem(SIGNATURE, BytesData(<<7, 7>>)),
       NpkPartItem(DEPENDENCIES, BytesData(<<5>>)) >>,
    << NpkPartItem(DESCRIPTION, BytesData(BODY_demo)),
       NpkPartItem(DEPENDENCIES, BytesData(<<>>)) >> }

\* the tags a part is given
TagChoices == {DESCRIPTION, DEPENDENCIES, SIGNATURE, HEADER}

InitDigest ==
  /\ RoundIdle
  /\ ContIdle
  /\ BootIdle
  /\ XzIdle
  /\ GetIdle
  /\ VerIdle
  /\ HashIdle
  /\ BlockIdle
  /\ SigIdle
  /\ PkgIdle
  /\ FileIdle
  /\ first \in DigestContainers
  /\ second = first
  /\ edits = 0
  /\ fed = NotFed

\* part.id = id for a part of the second package
ChangeTag ==
  /\ ~fed.called
  /\ edits < MaxEdits
  /\ \E i \in 1..Len(second), id \in TagChoices :
       /\ second[i].id # id
       /\ second' = [second EXCEPT ![i].id = id]
  /\ edits' = edits + 1
  /\ UNCHANGED <<enc, fc, boot, xz, getVars, verVars, hashVars, blockVars, sigVars, pkgVars, fileVars, first, fed>>

\* part.data = part.data + b'\x00' for a part of the second package
ChangeLength ==
  /\ ~fed.called
  /\ edits < MaxEdits
  /\ \E i \in 1..Len(second) :
       /\ IsBytes(second[i].data)
       /\ second' = [second EXCEPT ![i].data = BytesData(second[i].data[2] \o <<0>>)]
  /\ edits' = edits + 1
  /\ UNCHANGED <<enc, fc, boot, xz, getVars, verVars, hashVars, blockVars, sigVars, pkgVars, fileVars, first, fed>>

\* one byte of the body of a part of the second package is changed
ChangeByte ==
  /\ ~fed.called
  /\ edits < MaxEdits
  /\ \E i \in 1..Len(second) :
       /\ IsBytes(second[i].data)
       /\ second[i].data[2] # <<>>
       /\ \E offset \in FlipOffsets(second[i].data[2]) :
            second' = [second EXCEPT
                         ![i].data = BytesData(FlipByte(second[i].data[2], offset))]
  /\ edits' = edits + 1
  /\ UNCHANGED <<enc, fc, boot, xz, getVars, verVars, hashVars, blockVars, sigVars, pkgVars, fileVars, first, fed>>

\* two neighbouring parts of the second package change places
SwapParts ==
  /\ ~fed.called
  /\ edits < MaxEdits
  /\ \E i \in 1..(Len(second) - 1) :
       /\ second[i] # second[i + 1]
       /\ second' = [second EXCEPT ![i] = second[i + 1], ![i + 1] = second[i]]
  /\ edits' = edits + 1
  /\ UNCHANGED <<enc, fc, boot, xz, getVars, verVars, hashVars, blockVars, sigVars, pkgVars, fileVars, first, fed>>

\* get_digest(hash_fnc) on both packages: the bytes each feeds, and for the
\* second package the arguments of the successive hash_fnc.update calls
GetDigest ==
  /\ ~fed.called
  /\ fed' = [called |-> TRUE, first |-> DigestStream(first),
             second |-> DigestStream(second), updates |-> DigestUpdates(second)]
  /\ UNCHANGED <<enc, fc, boot, xz, getVars, verVars, hashVars, blockVars, sigVars, pkgVars, fileVars, first, second, edits>>

NextDigest == ChangeTag \/ ChangeLength \/ ChangeByte \/ SwapParts \/ GetDigest
SpecDigest == InitDigest /\ [][NextDigest]_vars

\* what the claim compares two packages by: for every part, in order, its
\* tag, its declared length and its body, the body of a SIGNATURE part left
\* out
Outline(parts) ==
  [j \in 1..Len(parts) |->
     << parts[j].id, PartLen(parts[j]),
        IF parts[j].id = SIGNATURE THEN <<>> ELSE PartBody(parts[j]) >>]

\* the parts up to and including the first SIGNATURE part
UpToSignature(parts) ==
  IF \E i \in 1..Len(parts) : parts[i].id = SIGNATURE
  THEN SubSeq(parts, 1, FirstIndex(parts, SIGNATURE))
  ELSE parts

NotHeader(part) == part.id # HEADER

\* the outline of the parts that are not HEADER parts, up to and including
\* the first SIGNATURE part
Covered(parts) == Outline(SelectSeq(UpToSignature(parts), NotHeader))

\* C6 as stated: two packages that differ in a tag, a declared length, a
\* body byte outside the SIGNATURE body or the order of parts are fed to the
\* hash function as different byte streams.
C6_EveryOtherByteCounts ==
  (fed.called /\ Outline(first) # Outline(second)) => fed.first # fed.second

\* C6: the byte streams of two packages differ exactly when the packages
\* differ in a tag, a declared length, a body byte or the order of their
\* parts among the parts that are not HEADER parts, up to and including the
\* first SIGNATURE part, whose body does not count.
C6_CoveredBytesCount ==
  fed.called => (Covered(first) # Covered(second) <=> fed.first # fed.second)

\* the body of the part in front of the SIGNATURE part was changed, and the
\* byte streams differ
C6_Witness ==
  /\ fed.called
  /\ edits = 1
  /\ Len(first) = 5
  /\ Tags(second) = Tags(first)
  /\ second[3].data # first[3].data
  /\ PartLen(second[3]) = PartLen(first[3])
  /\ Covered(first) # Covered(second)
  /\ fed.first # fed.second

(***************************************************************************)
(* The file program: a package is written with NovaPackage.save, the file  *)
(* may lose bytes at its end (its size field then set to what is left) or  *)
(* be damaged in its envelope, and NovaPackage.load reads the file.        *)
(***************************************************************************)
\* the largest number of bytes cut from the end of the part stream
MaxCut == 12

\* NpkNameInfo with a name of six three-byte characters, 18 bytes encoded
EuroNameInfo ==
  NpkNameInfo([j \in 1..6 |-> 8364], <<55, 46, 49, 53, 46, 49>> \o STR_dot \o STR_final,
              fromtimestamp(1700000000), Zeros(12))[1]

\* the packages saved
FileContainers ==
  { << >>,
    << NpkPartItem(NAME_INFO, InfoData(PkgNameInfo)),
       NpkPartItem(DESCRIPTION, BytesData(BODY_demo)),
       NpkPartItem(SIGNATURE, BytesData(<<>>)) >>,
    << NpkPartItem(DESCRIPTION, BytesData(<<97, 98, 99>>)),
       NpkPartItem(HEADER, BytesData(<<1, 2>>)),
       NpkPartItem(DEPENDENCIES, BytesData(Zeros(10))) >>,
    << NpkPartItem(DESCRIPTION, BytesData(BODY_d)),
       NpkPartItem(NAME_INFO, InfoData(PkgNameInfo)) >>,
    << NpkPartItem(NAME_INFO, InfoData(EuroNameInfo)) >> }

InitFile ==
  /\ RoundIdle
  /\ ContIdle
  /\ BootIdle
  /\ XzIdle
  /\ GetIdle
  /\ VerIdle
  /\ HashIdle
  /\ BlockIdle
  /\ SigIdle
  /\ PkgIdle
  /\ DigIdle
  /\ container \in FileContainers
  /\ file = <<>>
  /\ file_pc = "built"
  /\ loaded = NotLoaded

\* NovaPackage.save(file)
Save ==
  /\ file_pc = "built"
  /\ file' = save(container)
  /\ file_pc' = "saved"
  /\ UNCHANGED <<enc, fc, boot, xz, getVars, verVars, hashVars, blockVars, sigVars, pkgVars, digVars, container, loaded>>

\* the file without the last n bytes of its part stream, its size field
\* giving the length of what is left
CutFile(data, n) ==
  NPK_MAGIC \o inttobytes_le(Len(data) - 8 - n, 4) \o Slice(data, 8, Len(data) - n)

\* the end of the part stream is cut off
Cut ==
  /\ file_pc = "saved"
  /\ ~loaded.called
  /\ \E n \in 1..MaxCut :
       /\ n <= Len(file) - 8
       /\ file' = CutFile(file, n)
  /\ file_pc' = "cut"
  /\ UNCHANGED <<enc, fc, boot, xz, getVars, verVars, hashVars, blockVars, sigVars, pkgVars, digVars, container, loaded>>

\* the files a saved file may be turned into by damage to its envelope or
\* to its length: a changed byte of the magic, a size field that is one too
\* large or taken modulo 256 too small, a lost or an added last byte, and
\* files of fewer than eight bytes
DamagedFiles(data) ==
  { FlipByte(data, 0), FlipByte(data, 3),
    [data EXCEPT ![5] = (data[5] + 1) % 256],
    [data EXCEPT ![5] = (data[5] + 255) % 256],
    Slice(data, 0, Len(data) - 1), data \o <<0>>,
    Slice(data, 0, 4), Slice(data, 0, 7), <<>> }

\* the envelope or the length of the file is damaged
Damage ==
  /\ file_pc = "saved"
  /\ ~loaded.called
  /\ file' \in DamagedFiles(file)
  /\ file_pc' = "damaged"
  /\ UNCHANGED <<enc, fc, boot, xz, getVars, verVars, hashVars, blockVars, sigVars, pkgVars, digVars, container, loaded>>

\* NovaPackage.load(file)
Load ==
  /\ file_pc \in {"saved", "cut", "damaged"}
  /\ ~loaded.called
  /\ loaded' = [called |-> TRUE, result |-> load(file)]
  /\ UNCHANGED <<enc, fc, boot, xz, getVars, verVars, hashVars, blockVars, sigVars, pkgVars, digVars, container, file, file_pc>>

NextFile == Save \/ Cut \/ Damage \/ Load
SpecFile == InitFile /\ [][NextFile]_vars

\* the part stream from offset on holds a part whose six-byte header is
\* complete and declares more bytes than remain after it
RECURSIVE Overruns(_, _)
Overruns(data, offset) ==
  IF Len(data) - offset < 6 THEN FALSE
  ELSE IF bytestoint_le(Slice(data, offset + 2, offset + 6)) > Len(data) - offset - 6
  THEN TRUE
  ELSE Overruns(data, offset + 6 + bytestoint_le(Slice(data, offset + 2, offset + 6)))

\* the tags and the bodies of the parts of a package, in order
TagsAndBodies(parts) == [j \in 1..Len(parts) |-> <<parts[j].id, PartBody(parts[j])>>]

\* C9: parsing a part stream in which the declared length of a part exceeds
\* the bytes that remain raises an error, whatever the tag of the part; no
\* package with a shortened body is returned.
C9_TruncatedPartIsFatal ==
  (loaded.called /\ Overruns(Slice(file, 8, Len(file)), 0)) => Raised(loaded.result)

\* C10: loading the file that save wrote succeeds and gives a package with
\* the same number of parts, the same tags and the same bodies in the same
\* order.
C10_SaveLoadRoundTrip ==
  (loaded.called /\ file_pc = "saved")
  => /\ ~Raised(loaded.result)
     /\ TagsAndBodies(loaded.result[1]) = TagsAndBodies(container)

(***************************************************************************)
(* The access program: a package is accessed by tag with                   *)
(* NovaPackage.__getitem__, several times in a row.                        *)
(***************************************************************************)
\* number of calls of __getitem__ a run makes
MaxAccesses == 3

\* the packages accessed: an empty one, one without repeated tags, and two
\* (as NovaPackage(data) builds them from a part stream) in which a tag
\* occurs several times
AccessContainers ==
  { << >>,
    << NpkPartItem(NAME_INFO, InfoData(PkgNameInfo)),
       NpkPartItem(DESCRIPTION, BytesData(BODY_demo)) >>,
    << NpkPartItem(DESCRIPTION, BytesData(BODY_d)),
       NpkPartItem(SIGNATURE, BytesData(<<>>)),
       NpkPartItem(DESCRIPTION, BytesData(BODY_demo)) >>,
    << NpkPartItem(HEADER, BytesData(<<1, 2>>)),
       NpkPartItem(DEPENDENCIES, BytesData(<<5>>)),
       NpkPartItem(DEPENDENCIES, BytesData(<<>>)),
       NpkPartItem(HEADER, BytesData(<<3>>)),
       NpkPartItem(DEPENDENCIES, BytesData(<<5>>)) >> }

\* the tags a caller asks for
AccessTags == {NAME_INFO, DESCRIPTION, DEPENDENCIES, SIGNATURE, HEADER}

InitGet ==
  /\ RoundIdle
  /\ ContIdle
  /\ BootIdle
  /\ XzIdle
  /\ BlockIdle
  /\ SigIdle
  /\ PkgIdle
  /\ DigIdle
  /\ FileIdle
  /\ VerIdle
  /\ HashIdle
  /\ held \in AccessContainers
  /\ access = NotAccessed
  /\ accesses = 0

\* part = self[id]
GetItem ==
  /\ accesses < MaxAccesses
  /\ \E id \in AccessTags :
       \E found \in {getitem(held, id)} :
         /\ held' = found[1]
         /\ access' = [called |-> TRUE, id |-> id, index |-> found[2],
                       before |-> held]
  /\ accesses' = accesses + 1
  /\ UNCHANGED <<enc, fc, boot, xz, verVars, hashVars, blockVars, sigVars, pkgVars, digVars, fileVars>>

NextGet == GetItem
SpecGet == InitGet /\ [][NextGet]_vars

\* the positions of the parts of a package that carry the tag
Tagged(parts, id) == {j \in 1..Len(parts) : parts[j].id = id}

\* C11: access by tag returns the first part, in order, that carries the
\* tag, also when several parts carry it, and then leaves the package as it
\* was; only when no part carries the tag is one part with that tag and an
\* empty body appended at the end and returned; a second access with the
\* same tag returns the same part and adds nothing; the parts that were
\* there stay, in their order.
C11_LookupOrCreate ==
  access.called
  => /\ Tagged(access.before, access.id) # {}
          => /\ held = access.before
             /\ access.index \in Tagged(access.before, access.id)
             /\ \A j \in Tagged(access.before, access.id) : access.index <= j
     /\ Tagged(access.before, access.id) = {}
          => /\ held = Append(access.before, NpkPartItem(access.id, BytesData(<<>>)))
             /\ access.index = Len(held)
     /\ getitem(held, access.id) = <<held, access.index>>
     /\ SubSeq(held, 1, Len(access.before)) = access.before

\* the tag asked for is carried by three parts, and the first of them, which
\* is not the first part of the package, was returned
C11_Witness ==
  /\ access.called
  /\ access.id = DEPENDENCIES
  /\ Tagged(held, DEPENDENCIES) = {2, 3, 5}
  /\ access.index = 2
  /\ accesses = 3
  /\ Len(held) = 7

\* C12: load raises, and so returns no package, when the first four bytes of
\* the file are not the magic 0xBAD0F11E in little-endian order, or when the
\* little-endian size field differs from the number of bytes after the
\* eight bytes of the envelope.
C12_BadEnvelopeIsFatal ==
  ( /\ loaded.called
    /\ \/ Slice(file, 0, 4) # NPK_MAGIC
       \/ bytestoint_le(Slice(file, 4, 8)) # Len(file) - 8 )
  => loaded.result = AssertionError

\* the magic is right, the size field is one larger than the number of bytes
\* that follow, and load raised
C12_Witness ==
  /\ loaded.called
  /\ file_pc = "damaged"
  /\ Len(file) > 8
  /\ Slice(file, 0, 4) = NPK_MAGIC
  /\ bytestoint_le(Slice(file, 4, 8)) = Len(file) - 7
  /\ loaded.result = AssertionError

(***************************************************************************)
(* The version program: a caller holds a version, as a string or as the    *)
(* four packed bytes, and applies NpkNameInfo.encode_version to the string *)
(* and NpkNameInfo.decode_version to the bytes.  The value held is         *)
(* <<"str", s>>, <<"bytes", b>>, or the exception a call raised.           *)
(***************************************************************************)
\* number of calls a run makes
MaxVersionSteps == 2

\* the numbers and the build names the version strings are made of
VersionMajors == {0, 7, 255}
VersionMinors == {0, 15, 255}
VersionRevisions == {0, 1, 127, 200}
VersionKinds == {STR_alpha, STR_beta, STR_rc, STR_final, STR_test}

\* the string 'major.minor.revision.kind'
VersionText(major, minor, revision, kind) ==
  IntToStr(major) \o STR_dot \o IntToStr(minor) \o STR_dot \o IntToStr(revision)
    \o STR_dot \o kind

\* strings that are no version: '7.15', '7.15.1.rc.2', '7.x.1.final' and
\* '300.1.1.final'
MalformedVersions ==
  { <<55, 46, 49, 53>>,
    <<55, 46, 49, 53, 46, 49, 46>> \o STR_rc \o <<46, 50>>,
    <<55, 46, 120, 46, 49, 46>> \o STR_final,
    <<51, 48, 48, 46, 49, 46, 49, 46>> \o STR_final }

VersionStrings ==
  { VersionText(major, minor, revision, kind) :
      major \in VersionMajors, minor \in VersionMinors,
      revision \in VersionRevisions, kind \in VersionKinds }
    \cup MalformedVersions

\* the packed versions: revision, build, minor, major
VersionBytes ==
  { <<revision, build, minor, major>> :
      revision \in {0, 1, 127, 128, 255}, build \in {97, 98, 99, 102, 0, 100},
      minor \in {0, 15}, major \in {7, 255} }

InitVersion ==
  /\ RoundIdle
  /\ ContIdle
  /\ BootIdle
  /\ XzIdle
  /\ BlockIdle
  /\ SigIdle
  /\ PkgIdle
  /\ DigIdle
  /\ FileIdle
  /\ GetIdle
  /\ HashIdle
  /\ ver \in {<<"str", s>> : s \in VersionStrings} \cup {<<"bytes", b>> : b \in VersionBytes}
  /\ ver_in = ver
  /\ ver_op = "none"
  /\ ver_steps = 0

\* ver = NpkNameInfo.encode_version(ver)
EncodeVersion ==
  /\ ver_steps < MaxVersionSteps
  /\ ver[1] = "str"
  /\ \E r \in {encode_version(ver[2])} :
       ver' = IF Raised(r) THEN r ELSE <<"bytes", r[1]>>
  /\ ver_in' = ver
  /\ ver_op' = "encode"
  /\ ver_steps' = ver_steps + 1
  /\ UNCHANGED <<enc, fc, boot, xz, getVars, hashVars, blockVars, sigVars, pkgVars, digVars, fileVars>>

\* ver = NpkNameInfo.decode_version(ver)
DecodeVersion ==
  /\ ver_steps < MaxVersionSteps
  /\ ver[1] = "bytes"
  /\ ver' = <<"str", decode_version(ver[2])>>
  /\ ver_in' = ver
  /\ ver_op' = "decode"
  /\ ver_steps' = ver_steps + 1
  /\ UNCHANGED <<enc, fc, boot, xz, getVars, hashVars, blockVars, sigVars, pkgVars, digVars, fileVars>>

NextVersion == EncodeVersion \/ DecodeVersion
SpecVersion == InitVersion /\ [][NextVersion]_vars

\* C13: for a version string 'major.minor.revision.kind' with major and
\* minor in 0..255, revision in 0..127 and kind one of alpha, beta, rc, final
\* and test, decoding the result of encode_version gives back the string;
\* for 'test' the revision byte has bit 0x80 set and the build byte is 102,
\* for 'final' bit 0x80 is clear and the build byte is 102.
C13_EncodeThenDecode ==
  ver_op = "encode"
  => \A major \in VersionMajors, minor \in VersionMinors,
        revision \in VersionRevisions, kind \in VersionKinds :
       (revision <= 127 /\ ver_in[2] = VersionText(major, minor, revision, kind))
       => /\ ver[1] = "bytes"
          /\ decode_version(ver[2]) = ver_in[2]
          /\ kind = STR_test => (ver[2][1] = revision + 128 /\ ver[2][2] = 102)
          /\ kind = STR_final => (ver[2][1] = revision /\ ver[2][2] = 102)

\* '255.15.127.test' was encoded as the bytes 255, 102, 15, 255 and decodes
\* to the same string
C13_Witness ==
  /\ ver_op = "encode"
  /\ ver_in[2] = VersionText(255, 15, 127, STR_test)
  /\ ver = <<"bytes", <<255, 102, 15, 255>> >>
  /\ decode_version(ver[2]) = ver_in[2]

\* C14: for every packed version v of four bytes, encoding the result of
\* decode_version gives back v.
C14_DecodeThenEncode ==
  ver_op = "decode" => encode_version(ver[2]) = <<ver_in[2]>>

(***************************************************************************)
(* The retry loop of mikro_kcdsa_sign (C15, C16).                          *)
(***************************************************************************)
\* the signing program under the assumption that an acceptable nonce is
\* eventually drawn: the iteration that draws one is taken if it stays
\* possible
SignAccept == SignIterate /\ signer'.pc = "returned"
SpecSigLive == SpecSig /\ WF_vars(SignAccept)

\* what holds of the loop in every state: no exception reaches the caller,
\* the nonce drawn lies in 1..n-1, no signature is held while the loop
\* runs, and a further iteration is possible however many were discarded
LoopRetries ==
  /\ signer.pc \in {"loop", "returned"}
  /\ signer.nonce_secret \in 0..(CurveN - 1)
  /\ signer.pc = "loop"
     => /\ signer.signature = <<>>
        /\ ENABLED SignIterate
  /\ signer.pc = "returned" => (signer.nonce_secret >= 1 /\ Len(signer.signature) = 48)

\* C15: the retry loop has no iteration cap; a nonce that fails the check is
\* discarded without an error reaching the caller and without a signature
\* being returned, every iteration draws a nonce in 1..n-1, and when an
\* acceptable nonce is eventually drawn the call returns a signature.
C15_LoopUntilAccepted ==
  /\ []LoopRetries
  /\ (signer.pc = "loop") ~> (signer.pc = "returned" /\ Len(signer.signature) = 48)

\* a nonce was drawn and discarded, as many times as the signer counts, and
\* the loop still runs
C15_Witness ==
  /\ signer.pc = "loop"
  /\ signer.tries = MaxTries
  /\ signer.nonce_secret \in 1..(CurveN - 1)
  /\ signer.signature = <<>>

\* nonce_hash[:16] for the nonce secret k
NonceHashOf(k) == Slice(mikro_sha256(inttobytes_le(SignNonce(k), 32)), 0, 16)

\* s = d^-1 * (k - e) mod n, e the data hash as the bytes the code holds
ScalarOf(data, d, k) == SignScalar(d, k, DataHash(data, NonceHashOf(k)))

\* x(s*Pub + e*G), as an integer in 0..p-1
RecoveredX(data, d, k) ==
  point_addition(point_mul(PubPoint(d), ScalarOf(data, d, k)),
                 GMul(DataHash(data, NonceHashOf(k))))[1]

\* the signer stands where a nonce k accepted exactly when `accept' holds
\* leaves it: returned with nonce_hash[:16] and LE(s), or in the loop with
\* no signature
AcceptedIff(accept) ==
  /\ signer.pc = "returned" <=> accept
  /\ signer.pc = "returned"
     => signer.signature
          = NonceHashOf(signer.nonce_secret)
              \o inttobytes_le(ScalarOf(signer.data, signer.private_key,
                                        signer.nonce_secret), 32)
  /\ signer.pc # "returned" => (signer.pc = "loop" /\ signer.signature = <<>>)

\* C16 as stated: the nonce k of the last iteration is accepted if and only
\* if x(s*Pub + e*G) mod n = nonce, with nonce = x(k*G) mod n and
\* s = d^-1 * (k - e) mod n; otherwise the loop goes on.  Stated of the
\* signer before its signature is presented to a verifier.
C16_AcceptIffReducedXIsNonce ==
  (signer.nonce_secret # 0 /\ ~verifier.called)
  => AcceptedIff(RecoveredX(signer.data, signer.private_key, signer.nonce_secret) % CurveN
                   = SignNonce(signer.nonce_secret))

\* C16: the nonce k of the last iteration is accepted if and only if
\* x(s*Pub + e*G), the integer in 0..p-1 and not its residue modulo n,
\* equals nonce = x(k*G) mod n, with s = d^-1 * (k - e) mod n; otherwise k
\* is discarded and the loop goes on.  Stated of the signer before its
\* signature is presented to a verifier.
C16_AcceptIffXIsNonce ==
  (signer.nonce_secret # 0 /\ ~verifier.called)
  => AcceptedIff(RecoveredX(signer.data, signer.private_key, signer.nonce_secret)
                   = SignNonce(signer.nonce_secret))

\* a nonce was discarded whose recovered x-coordinate is n or more and has
\* the residue nonce
C16_Witness ==
  /\ signer.pc = "loop"
  /\ signer.nonce_secret # 0
  /\ ~verifier.called
  /\ RecoveredX(signer.data, signer.private_key, signer.nonce_secret) >= CurveN
  /\ RecoveredX(signer.data, signer.private_key, signer.nonce_secret) % CurveN
       = SignNonce(signer.nonce_secret)

(***************************************************************************)
(* The hashing program: a caller constructs a SHA256 or a MikroSHA256,     *)
(* feeds it chunks with update() and asks for digest() in between.         *)
(***************************************************************************)
\* number of calls a run makes
MaxHashSteps == 4

\* the class of the hasher by its name
HashClass(name) == IF name = "MikroSHA256" THEN MikroSHA256Class ELSE StdSHA256Class

\* the chunks fed: one of 55 bytes and one of 1 byte, so that the buffer
\* holds 55, 56 and 57 bytes at some digest
HashChunks == { [j \in 1..55 |-> (7 * j) % 256], <<97>> }

InitHash ==
  /\ RoundIdle
  /\ ContIdle
  /\ BootIdle
  /\ XzIdle
  /\ BlockIdle
  /\ SigIdle
  /\ PkgIdle
  /\ DigIdle
  /\ FileIdle
  /\ GetIdle
  /\ VerIdle
  /\ \E name \in {"SHA256", "MikroSHA256"} :
       hasher = [class |-> name, self |-> sha_new(HashClass(name))]
  /\ updates = <<>>
  /\ digested = NotDigested
  /\ hash_steps = 0

\* hasher.update(message)
Update ==
  /\ hash_steps < MaxHashSteps
  /\ \E message \in HashChunks :
       /\ hasher' = [hasher EXCEPT !.self = sha_update(HashClass(hasher.class), hasher.self, message)]
       /\ updates' = Append(updates, message)
  /\ hash_steps' = hash_steps + 1
  /\ UNCHANGED <<enc, fc, boot, xz, digested, getVars, verVars, blockVars, sigVars, pkgVars, digVars, fileVars>>

\* hasher.digest(): the value returned, the lengths of the final blocks
\* _pad_message gave, and the number of updates made before the call
Digest ==
  /\ hash_steps < MaxHashSteps
  /\ digested' = [calls |-> digested.calls + 1,
                  after |-> Len(updates),
                  blocks |-> [j \in DOMAIN sha_pad_message(hasher.self.buffer, hasher.self.length)
                                |-> Len(sha_pad_message(hasher.self.buffer, hasher.self.length)[j])],
                  value |-> sha_digest(HashClass(hasher.class), hasher.self)]
  /\ hasher' = [hasher EXCEPT !.self = sha_after_digest(HashClass(hasher.class), hasher.self)]
  /\ hash_steps' = hash_steps + 1
  /\ UNCHANGED <<enc, fc, boot, xz, updates, getVars, verVars, blockVars, sigVars, pkgVars, digVars, fileVars>>

NextHash == Update \/ Digest
SpecHash == InitHash /\ [][NextHash]_vars

\* the bytes of the first n chunks
RECURSIVE Fed(_, _)
Fed(chunks, n) == IF n = 0 THEN <<>> ELSE Fed(chunks, n - 1) \o chunks[n]

\* C17 as stated: the last digest used one final block of 64 bytes when the
\* tail of the message, its length modulo 64, was 56 bytes or less, and two
\* otherwise.
C17_OneBlockUpTo56 ==
  digested.calls > 0
  => digested.blocks = IF Len(Fed(updates, digested.after)) % 64 <= 56
                       THEN <<64>> ELSE <<64, 64>>

\* C17: the last digest used one final block of 64 bytes when the tail of
\* the message, its length modulo 64, was 55 bytes or less, and two final
\* blocks of 64 bytes otherwise.
C17_OneBlockUpTo55 ==
  digested.calls > 0
  => digested.blocks = IF Len(Fed(updates, digested.after)) % 64 <= 55
                       THEN <<64>> ELSE <<64, 64>>

\* a digest of 56 bytes took two final blocks
C17_Witness ==
  /\ digested.calls > 0
  /\ Len(Fed(updates, digested.after)) = 56
  /\ digested.blocks = <<64, 64>>

\* the hasher that the updates alone leave, no digest() in between
RECURSIVE Replay(_, _, _)
Replay(cls, chunks, n) ==
  IF n = 0 THEN sha_new(cls) ELSE sha_update(cls, Replay(cls, chunks, n - 1), chunks[n])

\* C18: digest() leaves state, buffer, length and round_offset as they
\* were: the hasher is the one its updates alone lead to, however many
\* digest() calls were made in between, and the value of the last digest()
\* is the digest of the bytes fed before it, so that two calls in a row give
\* the same value and updates after a digest() end in the digest they give
\* without it.
C18_DigestLeavesHasher ==
  /\ hasher.self = Replay(HashClass(hasher.class), updates, Len(updates))
  /\ digested.calls > 0
     => digested.value
          = sha_digest(HashClass(hasher.class),
                       sha_update(HashClass(hasher.class), sha_new(HashClass(hasher.class)),
                                  Fed(updates, digested.after)))

\* digest() was called, then update(), then digest() twice
C18_Witness ==
  /\ digested.calls >= 3
  /\ digested.after = Len(updates)
  /\ Len(updates) >= 1
  /\ hash_steps = MaxHashSteps

(***************************************************************************)
(* What get_digest feeds (C19).                                            *)
(***************************************************************************)
\* the 6-byte header of a part: the tag as a little-endian u16, the length
\* of the body as a little-endian u32 (bodies here are shorter than 65536)
TagAndLength(part) ==
  << part.id % 256, part.id \div 256,
     PartLen(part) % 256, PartLen(part) \div 256, 0, 0 >>

\* what the claim has get_digest feed for one part that is reached and is no
\* HEADER part: the header, and the body unless the part is a SIGNATURE part
\* or the body is empty; a NameInfo record as its serialized bytes
FedForPart(part) ==
  IF part.id = SIGNATURE THEN << TagAndLength(part) >>
  ELSE IF IsBytes(part.data)
  THEN IF part.data[2] = <<>> THEN << TagAndLength(part) >>
       ELSE << TagAndLength(part), part.data[2] >>
  ELSE << TagAndLength(part), serialize(part.data[2]) >>

\* the update calls the claim describes for a package
FedForParts(parts) ==
  Concat([j \in 1..Len(SelectSeq(UpToSignature(parts), NotHeader)) |->
            FedForPart(SelectSeq(UpToSignature(parts), NotHeader)[j])])

\* C19: get_digest feeds the hash function, in container order, nothing for
\* a HEADER part, for every other part the 6-byte header and then the body
\* when it is not empty (a NameInfo record as its 36 serialized bytes), and
\* at the first SIGNATURE part the header only, where the walk stops.
C19_FeedsHeadersAndBodies ==
  fed.called
  => /\ fed.updates = FedForParts(second)
     /\ fed.second = Concat(fed.updates)
     /\ \A j \in 1..Len(second) :
          ~IsBytes(second[j].data) => Len(serialize(second[j].data[2])) = 36

\* get_digest ran on a package with a HEADER part, a NameInfo record and a
\* part behind the SIGNATURE part
C19_Witness ==
  /\ fed.called
  /\ \E i \in 1..Len(second) : second[i].id = HEADER
  /\ \E i \in 1..Len(second) : ~IsBytes(second[i].data) /\ second[i].id # HEADER
  /\ \E i \in 1..(Len(second) - 1) : second[i].id = SIGNATURE
  /\ Len(fed.updates) >= 3

(***************************************************************************)
(* What sign stores (C20).                                                 *)
(***************************************************************************)
\* the 48-byte signatures mikro_kcdsa_sign can return for data under d
KcdsaSignaturesOf(data, d) ==
  { a[4].sig : a \in { <<data, d, k, SignAttempt(data, d, k)>> : k \in NonceDraws } }
    \ {<<>>}

\* body is sha1_digest || kcdsa_sig || eddsa_sig for the two digests and the
\* two private keys
StoredSignature(body, sha1_digest, sha256_digest, d, eddsa_private_key) ==
  /\ Len(body) = 132
  /\ Len(sha1_digest) = 20
  /\ Slice(body, 0, 20) = sha1_digest
  /\ Slice(body, 20, 68) \in KcdsaSignaturesOf(Slice(sha256_digest, 0, 20), d)
  /\ Slice(body, 68, 132) = mikro_eddsa_sign(sha256_digest, eddsa_private_key)

\* C20: after sign the SIGNATURE body holds exactly 132 bytes: the SHA-1
\* get_digest of the package as signed, a Mikro signature over the first 20
\* bytes of its SHA-256 get_digest, and the EdDSA signature over the whole
\* SHA-256 digest; both digests are those of the package with the
\* placeholder of 132 zero bytes in place.
C20_SignStoresDigestAndSignatures ==
  (pkg_pc = "signed" /\ tamper = "none" /\ ~verdict.called)
  => /\ DigestStream(package) = DigestStream(WithPlaceholder(package))
     /\ signing.sha1_digest = hashlib_sha1(DigestStream(package))
     /\ signing.sha256_digest = hashlib_sha256(DigestStream(package))
     /\ StoredSignature(SignatureBody(package), signing.sha1_digest,
                        signing.sha256_digest, signing.kcdsa_private_key,
                        signing.eddsa_private_key)

\* sign ran on the package with the empty SIGNATURE part and left 132 bytes
\* in it that are not the placeholder
C20_Witness ==
  /\ pkg_pc = "signed"
  /\ tamper = "none"
  /\ ~verdict.called
  /\ Tags(package) = <<NAME_INFO, DESCRIPTION, SIGNATURE>>
  /\ Len(SignatureBody(package)) = 132
  /\ SignatureBody(package) # Zeros(132)
  /\ Slice(SignatureBody(package), 0, 20) = signing.sha1_digest

(***************************************************************************)
(* What mikro_kcdsa_verify accepts (C21).                                  *)
(***************************************************************************)
\* the candidate points (public_x, y), one per square root y
CandidatePoints(public_key) ==
  { <<bytestoint_le_mod(public_key, CurveP), y>> :
      y \in { r \in { fsqrt(CurveRhs(bytestoint_le_mod(public_key, CurveP)), z)[j] :
                        z \in QnrDraws, j \in 1..2 } :
                FMul(r, r) = CurveRhs(bytestoint_le_mod(public_key, CurveP)) } }

\* the x-coordinates x(s*Pub_i + e*G) of the candidate points, each as the
\* tuple <<x>>, s and e taken from the signature and the data
CandidateXs(public_key, data, signature) ==
  { VerifyNonce(P, BitsOfBytesLE(Slice(signature, 16, Len(signature))),
                DataHash(data, Slice(signature, 0, 16))) :
      P \in CandidatePoints(public_key) }

\* the first 16 bytes of MikroDigest(LE32(nonce)) are the signature's
\* nonce_hash
Commits(nonce, signature) ==
  Slice(mikro_sha256(inttobytes_le(nonce, 32)), 0, 16) = Slice(signature, 0, 16)

\* verify was called with a signature of 16 bytes or more and a public key
\* that has candidate points
VerifiedWithCandidates ==
  /\ verifier.called
  /\ Len(verifier.signature) >= 16
  /\ ~NoSquareRoot(verifier.public_key)

SubSteps_asStated(i) ==
  [j \in 1..4 |->
     [k |-> 4 - j,
      mix_t |-> (i + (4 - j) + 1) % 4, mix_o |-> (i + (4 - j)) % 4,
      add_t |-> (i + (4 - j)) % 4,     add_o |-> (i + (4 - j) + 1) % 4]]

\* the loop body of mikro_encode as written: four pairs of assignments; k is
\* the offset of the constant MIKRO_SHA256_K[i*4+k] both assignments use,
\* mix_t and mix_o are the subscripts (i+.) % 4 of s in the first assignment
\* (target, operand), add_t and add_o those of the second one
SubSteps(i) ==
  << [k |-> 3, mix_t |-> (i+0) % 4, mix_o |-> (i+3) % 4,
               add_t |-> (i+3) % 4, add_o |-> (i+1) % 4],
     [k |-> 2, mix_t |-> (i+1) % 4, mix_o |-> (i+2) % 4,
               add_t |-> (i+0) % 4, add_o |-> (i+2) % 4],
     [k |-> 1, mix_t |-> (i+2) % 4, mix_o |-> (i+1) % 4,
               add_t |-> (i+1) % 4, add_o |-> (i+3) % 4],
     [k |-> 0, mix_t |-> (i+3) % 4, mix_o |-> (i+0) % 4,
               add_t |-> (i+2) % 4, add_o |-> (i+0) % 4] >>

\* the two assignments of one sub-step applied to the words s
ApplySubStep(s, i, e) ==
  EncAddStep(EncMixStep(s, e.mix_t + 1, e.mix_o + 1, MKRot(i*4 + e.k)),
             e.add_t + 1, e.add_o + 1, MK(i*4 + e.k))

\* what a sub-step leaves on record: the round, the constant, the rotation
\* amount and the subscripts of s each assignment reads and writes
SubStepRecord(i, e) ==
  [i |-> i, k |-> e.k, constant |-> MK(i*4 + e.k), rotation |-> MKRot(i*4 + e.k),
   mix_reads |-> {e.mix_t, e.mix_o}, mix_writes |-> e.mix_t,
   add_reads |-> {e.add_t, e.add_o}, add_writes |-> e.add_t]

NoSubStep == [i |-> 16, k |-> 0, constant |-> <<0, 0>>, rotation |-> 0,
              mix_reads |-> {}, mix_writes |-> 0, add_reads |-> {}, add_writes |-> 0]

\* s = list(struct.unpack('>IIII', s)), before the first round
InitRound ==
  /\ \E b \in BlockInputs :
       enc = [pc |-> "loop", input |-> b, s |-> UnpackBlock(b), done |-> 0,
              last |-> NoSubStep, result |-> <<>>]
  /\ ContIdle
  /\ BootIdle
  /\ XzIdle
  /\ BlockIdle
  /\ SigIdle
  /\ PkgIdle
  /\ DigIdle
  /\ FileIdle
  /\ GetIdle
  /\ VerIdle
  /\ HashIdle

\* the next pair of assignments: round i = 15 - done \div 4 of
\* `for i in reversed(range(16))`, pair number done % 4 of its body
SubStep ==
  /\ enc.pc = "loop"
  /\ enc.done < 64
  /\ \E i \in {15 - (enc.done \div 4)} :
     \E e \in {SubSteps(i)[(enc.done % 4) + 1]} :
       enc' = [enc EXCEPT !.s = ApplySubStep(enc.s, i, e),
                          !.done = enc.done + 1,
                          !.last = SubStepRecord(i, e)]
  /\ UNCHANGED <<fc, boot, xz, blockVars, sigVars, pkgVars, digVars, fileVars,
                 getVars, verVars, hashVars>>

\* encodedData = struct.pack('>IIII', *s); return encodedData
EncReturn ==
  /\ enc.pc = "loop"
  /\ enc.done = 64
  /\ enc' = [enc EXCEPT !.pc = "returned", !.result = PackBlock(enc.s)]
  /\ UNCHANGED <<fc, boot, xz, blockVars, sigVars, pkgVars, digVars, fileVars,
                 getVars, verVars, hashVars>>

NextRound == SubStep \/ EncReturn
SpecRound == InitRound /\ [][NextRound]_vars

\* the sub-steps taken one at a time give what mikro_encode returns
RoundsGiveEncode ==
  enc.pc = "returned" => enc.result = mikro_encode(enc.input)

\* the n-th sub-step (n from 1) is sub-step k = 3 - (n-1) % 4 of round
\* i = 15 - (n-1) \div 4, and uses K[i*4+k] and the rotation K[i*4+k] & 0xF
InOrder(n, last) ==
  /\ last.i = 15 - ((n - 1) \div 4)
  /\ last.k = 3 - ((n - 1) % 4)
  /\ last.constant = MIKRO_SHA256_K[last.i * 4 + last.k + 1]
  /\ last.rotation = And16(last.constant[2], 15)

\* C22 as stated: the rounds run from 15 down to 0 and the sub-steps in the
\* order k = 3, 2, 1, 0 with the constant K[i*4+k] and the rotation
\* K[i*4+k] & 0xF, and the words sub-step k reads in its first assignment are
\* those at the positions (i+k+1) mod 4 and (i+k) mod 4
C22_SubStepReadsAsStated ==
  (enc.pc # "idle" /\ enc.done > 0) =>
    /\ InOrder(enc.done, enc.last)
    /\ enc.last.mix_reads = {(enc.last.i + enc.last.k + 1) % 4,
                             (enc.last.i + enc.last.k) % 4}

\* C22 (amended): the rounds run from 15 down to 0 and the sub-steps in the
\* order k = 3, 2, 1, 0 with the constant K[i*4+k] and the rotation
\* K[i*4+k] & 0xF; the first assignment of sub-step k reads the words at
\* (i+3-k) mod 4 and (i+k) mod 4 and writes the former, the second one reads
\* the words at (i+2-k) mod 4 and (i-k) mod 4 and writes the former
C22_SubStepReads ==
  (enc.pc # "idle" /\ enc.done > 0) =>
    /\ InOrder(enc.done, enc.last)
    /\ enc.last.mix_reads = {(enc.last.i + 3 - enc.last.k) % 4,
                             (enc.last.i + enc.last.k) % 4}
    /\ enc.last.mix_writes = (enc.last.i + 3 - enc.last.k) % 4
    /\ enc.last.add_reads = {(enc.last.i + 2 - enc.last.k) % 4,
                             (enc.last.i + 4 - enc.last.k) % 4}
    /\ enc.last.add_writes = (enc.last.i + 2 - enc.last.k) % 4
    /\ RoundsGiveEncode

\* a sub-step with k = 2 has run, of a round whose frame is rotated
C22_Witness ==
  /\ enc.pc = "loop"
  /\ enc.last.i = 13
  /\ enc.last.k = 2
  /\ enc.last.mix_reads = {2, 3}

\* ---------------------------------------------------------------------------
\* MikroSHA256 against the hash function of FIPS 180 with the constants and
\* the initial hash value as parameters (src/mikro.py:137-145)
\* ---------------------------------------------------------------------------

\* FIPS 180 section 5.1.1: the whole message, a 1 bit, zero bits up to 448
\* modulo 512, and the length in bits as a 64-bit number
FipsPadded(M) ==
  M \o <<128>> \o Zeros((64 - ((Len(M) + 9) % 64)) % 64) \o PackLength(8 * Len(M))

\* FIPS 180 section 6.2.2 step 3 for t = 0..63, with the constants Kt
RECURSIVE FipsRounds(_, _, _, _)
FipsRounds(Kt, W, v, t) ==
  IF t > 63 \/ ~Evaluated(v) THEN v
  ELSE FipsRounds(Kt, W,
         << Add32(sha_T1(v, W[t + 1], Kt[t + 1]), sha_T2(v)), v[1], v[2], v[3],
            Add32(v[4], sha_T1(v, W[t + 1], Kt[t + 1])), v[5], v[6], v[7] >>,
         t + 1)

\* FIPS 180 section 6.2.2 step 4: the working variables v added to the
\* incoming hash value H
FipsAdd(v, H) == [j \in 1..8 |-> Add32(v[j], H[j])]

\* FIPS 180 section 6.2.2 for one block of the padded message: the working
\* variables start from the incoming hash value H, and step 4 adds them to
\* that same H
FipsBlock(Kt, H, blk) ==
  FipsAdd(FipsRounds(Kt, sha_expand([n \in 1..16 |-> WordOfBytes(SubSeq(blk, 4*n - 3, 4*n))]),
                     H, 0), H)

RECURSIVE FipsChain(_, _, _)
FipsChain(Kt, H, padded) ==
  IF padded = <<>> \/ ~Evaluated(H) THEN H
  ELSE FipsChain(Kt, FipsBlock(Kt, H, SubSeq(padded, 1, 64)),
                 SubSeq(padded, 65, Len(padded)))

\* the 8 words of a hash value as 32 bytes, most significant byte first
FipsBytes(H) == Concat([j \in 1..8 |-> BytesOfWord(H[j])])

\* the hash value H(N) of the message M
FipsDigest(Kt, H0, M) == FipsBytes(FipsChain(Kt, H0, FipsPadded(M)))

\* C23: a digest of a MikroSHA256 is the FIPS 180 hash of the bytes fed,
\* computed with the 64 Mikro constants (round r with K[r mod 64]) and from
\* the Mikro initial state, every block adding its incoming chaining value;
\* before any block is processed the state is the Mikro initial state; and
\* a digest of a SHA256 is the same function with the FIPS constants and
\* initial state.
C23_MikroIsFipsWithOwnConstants ==
  /\ (hasher.class = "MikroSHA256" /\ Len(Fed(updates, Len(updates))) < 64)
     => hasher.self.state = MIKRO_INITIAL_STATE
  /\ digested.calls > 0
     => digested.value =
          IF hasher.class = "MikroSHA256"
          THEN FipsDigest(MIKRO_SHA256_K, MIKRO_INITIAL_STATE, Fed(updates, digested.after))
          ELSE FipsDigest(SHA256_K, SHA256_INITIAL_STATE, Fed(updates, digested.after))

\* a MikroSHA256 gave the digest of 110 bytes: one block processed in
\* update, one final block in digest
C23_Witness ==
  /\ hasher.class = "MikroSHA256"
  /\ digested.calls > 0
  /\ Len(Fed(updates, digested.after)) = 110
  /\ digested.value # FipsDigest(SHA256_K, SHA256_INITIAL_STATE, Fed(updates, digested.after))

\* ---------------------------------------------------------------------------
\* NpkFileContainer: serialize and unserialize_from (src/npk.py:103-140)
\* ---------------------------------------------------------------------------
MaxItems == 2
MaxContSteps == 3

\* struct.calcsize('<BB6sIBBBBIIIH')
FileHeaderSize == 30

\* entries with the field widths of the format: perm, type, revision, rc,
\* minor and major one byte, usr_or_grp six bytes, the times and unknow
\* 32 bits; names and data of different lengths, empty ones included
FileItems ==
  { [perm |-> 237, type |-> 65, usr_or_grp |-> <<0, 0, 0, 0, 0, 0>>,
     modify_time |-> 1700000000, revision |-> 1, rc |-> 0, minor |-> 15, major |-> 7,
     create_time |-> 1700000001, unknow |-> 0, name |-> <<98, 105, 110>>, data |-> <<>>],
    [perm |-> 164, type |-> 129, usr_or_grp |-> <<1, 2, 3, 4, 5, 6>>,
     modify_time |-> 65536, revision |-> 0, rc |-> 2, minor |-> 0, major |-> 6,
     create_time |-> 255, unknow |-> 16777216, name |-> <<97>>, data |-> <<0, 1, 0>>],
    [perm |-> 0, type |-> 0, usr_or_grp |-> <<0, 0, 0, 0, 0, 0>>,
     modify_time |-> 0, revision |-> 0, rc |-> 0, minor |-> 0, major |-> 0,
     create_time |-> 0, unknow |-> 0, name |-> <<>>, data |-> <<>>],
    [perm |-> 255, type |-> 255, usr_or_grp |-> <<255, 255, 255, 255, 255, 255>>,
     modify_time |-> 2147483647, revision |-> 255, rc |-> 255, minor |-> 255, major |-> 255,
     create_time |-> 2147483647, unknow |-> 2147483647, name |-> <<0, 0>>, data |-> <<255>>],
    [perm |-> 1, type |-> 2, usr_or_grp |-> <<0, 0, 0, 0, 0, 9>>,
     modify_time |-> 3, revision |-> 4, rc |-> 5, minor |-> 6, major |-> 7,
     create_time |-> 8, unknow |-> 9, name |-> <<>>, data |-> <<1, 0, 0, 0, 1, 0>>] }

FileLists == UNION { [1..n -> FileItems] : n \in 0..MaxItems }

\* an entry written with its data before its name
PackFileItem_dataFirst(item) ==
  <<item.perm, item.type>> \o PackS(item.usr_or_grp, 6)
    \o inttobytes_le(item.modify_time, 4)
    \o <<item.revision, item.rc, item.minor, item.major>>
    \o inttobytes_le(item.create_time, 4) \o inttobytes_le(item.unknow, 4)
    \o inttobytes_le(Len(item.data), 4) \o inttobytes_le(Len(item.name), 2)
    \o item.data \o item.name

\* struct.pack(self._format, ..., len(item.data), len(item.name)) and
\* data += item.name + item.data
PackFileItem(item) ==
  <<item.perm, item.type>> \o PackS(item.usr_or_grp, 6)
    \o inttobytes_le(item.modify_time, 4)
    \o <<item.revision, item.rc, item.minor, item.major>>
    \o inttobytes_le(item.create_time, 4) \o inttobytes_le(item.unknow, 4)
    \o inttobytes_le(Len(item.data), 4) \o inttobytes_le(Len(item.name), 2)
    \o item.name \o item.data

\* a zlib stream is held as the tag "zlib" with the bytes it inflates to:
\* the outputs of compressor.compress for each entry and of flush, joined,
\* are one stream of the joined inputs
ZlibStream(raw) == <<"zlib", raw>>
ZlibError == <<"raise", "zlib.error", "">>
zlib_decompress(data) == IF data[1] = "zlib" THEN <<data[2]>> ELSE ZlibError

\* NpkFileContainer(items).serialize()
files_serialize(items) ==
  ZlibStream(Concat([j \in 1..Len(items) |-> PackFileItem(items[j])]))

\* struct.unpack_from(NpkFileContainer._format, b) with the two slices that
\* follow it
UnpackFileItem(b) ==
  [perm |-> b[1], type |-> b[2], usr_or_grp |-> SubSeq(b, 3, 8),
   modify_time |-> bytestoint_le(SubSeq(b, 9, 12)),
   revision |-> b[13], rc |-> b[14], minor |-> b[15], major |-> b[16],
   create_time |-> bytestoint_le(SubSeq(b, 17, 20)),
   unknow |-> bytestoint_le(SubSeq(b, 21, 24)),
   name |-> Slice(b, FileHeaderSize, FileHeaderSize + bytestoint_le(SubSeq(b, 29, 30))),
   data |-> Slice(b, FileHeaderSize + bytestoint_le(SubSeq(b, 29, 30)),
                  FileHeaderSize + bytestoint_le(SubSeq(b, 29, 30))
                    + bytestoint_le(SubSeq(b, 25, 28)))]

\* decompressed_data[offset+name_size+data_size:]
AfterFileItem(b) ==
  Slice(b, FileHeaderSize + bytestoint_le(SubSeq(b, 29, 30))
             + bytestoint_le(SubSeq(b, 25, 28)), Len(b))

\* while len(decompressed_data): the entries read, and the number of bytes
\* each turn of the loop took off the buffer
RECURSIVE FilesLoop(_, _, _)
FilesLoop(b, items, consumed) ==
  IF b = <<>> THEN << [items |-> items, consumed |-> consumed] >>
  ELSE IF Len(b) < FileHeaderSize THEN StructError
  ELSE FilesLoop(AfterFileItem(b), Append(items, UnpackFileItem(b)),
                 Append(consumed, Len(b) - Len(AfterFileItem(b))))

\* NpkFileContainer.unserialize_from(data)
files_unserialize_from(data) ==
  IF Raised(zlib_decompress(data)) THEN zlib_decompress(data)
  ELSE FilesLoop(data[2], <<>>, <<>>)

InitCont ==
  /\ \E items \in FileLists :
       fc = [pc |-> "held", first |-> items, value |-> <<"items", items>>,
             op |-> "none", consumed |-> <<>>, inflated |-> 0, steps |-> 0]
  /\ RoundIdle
  /\ BootIdle
  /\ XzIdle
  /\ BlockIdle
  /\ SigIdle
  /\ PkgIdle
  /\ DigIdle
  /\ FileIdle
  /\ GetIdle
  /\ VerIdle
  /\ HashIdle

\* value = NpkFileContainer(value).serialize()
ContSerialize ==
  /\ fc.pc = "held"
  /\ fc.steps < MaxContSteps
  /\ fc.value[1] = "items"
  /\ fc' = [fc EXCEPT !.value = files_serialize(fc.value[2]),
                      !.op = "serialize", !.consumed = <<>>, !.inflated = 0,
                      !.steps = fc.steps + 1]
  /\ UNCHANGED <<enc, boot, xz, blockVars, sigVars, pkgVars, digVars, fileVars,
                 getVars, verVars, hashVars>>

\* value = NpkFileContainer.unserialize_from(value)._items
ContUnserialize ==
  /\ fc.pc = "held"
  /\ fc.steps < MaxContSteps
  /\ fc.value[1] = "zlib"
  /\ \E r \in {files_unserialize_from(fc.value)} :
       fc' = IF Raised(r)
             THEN [fc EXCEPT !.pc = "raised", !.value = r, !.op = "unserialize",
                             !.steps = fc.steps + 1]
             ELSE [fc EXCEPT !.value = <<"items", r[1].items>>,
                             !.consumed = r[1].consumed,
                             !.inflated = Len(fc.value[2]),
                             !.op = "unserialize", !.steps = fc.steps + 1]
  /\ UNCHANGED <<enc, boot, xz, blockVars, sigVars, pkgVars, digVars, fileVars,
                 getVars, verVars, hashVars>>

NextCont == ContSerialize \/ ContUnserialize
SpecCont == InitCont /\ [][NextCont]_vars

RECURSIVE SumOf(_)
SumOf(s) == IF s = <<>> THEN 0 ELSE Head(s) + SumOf(Tail(s))

C25_VerifyLeavesContainer ==
  verdict.called => package = verdict.before

\* what sign may change of the parts: with a SIGNATURE part among them the
\* body of the first one and nothing else; with none, one SIGNATURE part
\* added after the last part
SignFrame(before, after) ==
  IF \E i \in 1..Len(before) : before[i].id = SIGNATURE
  THEN /\ Len(after) = Len(before)
       /\ \A j \in 1..Len(before) :
            /\ after[j].id = before[j].id
            /\ (\E i \in 1..(j - 1) : before[i].id = SIGNATURE) \/ before[j].id # SIGNATURE
               => after[j] = before[j]
  ELSE /\ Len(after) = Len(before) + 1
       /\ SubSeq(after, 1, Len(before)) = before
       /\ after[Len(after)].id = SIGNATURE

\* C26: sign changes only the SIGNATURE part: every other part keeps its
\* tag, its body and its position; of the SIGNATURE parts the first keeps
\* its position and takes the new body; when there is none, exactly one is
\* appended at the end.
C26_SignChangesOnlySignature ==
  (pkg_pc \in {"signed", "sign_raised"} /\ tamper = "none" /\ ~verdict.called)
  => /\ SignFrame(signing.before, package)
     /\ pkg_pc = "signed" => Len(SignatureBody(package)) = 132

\* sign ran on the package without a SIGNATURE part and appended one
C26_Witness ==
  /\ pkg_pc = "signed"
  /\ tamper = "none"
  /\ ~verdict.called
  /\ Tags(signing.before) = <<HEADER, NAME_INFO, DESCRIPTION>>
  /\ Tags(package) = <<HEADER, NAME_INFO, DESCRIPTION, SIGNATURE>>
  /\ Len(package[4].data[2]) = 132

\* ---------------------------------------------------------------------------
\* Chunked updates against one update (src/sha256.py:252-312)
\* ---------------------------------------------------------------------------

\* the hasher after one update with the whole message
OneUpdate(cls, message) == sha_update(cls, sha_new(cls), message)

\* what the claim says of a hasher h that was fed the bytes of message in
\* any number of updates; digest() reads state, buffer, length and
\* round_offset and nothing else, so that equal hashers give equal digests
AsOneUpdate(cls, h, message) ==
  /\ Len(h.buffer) < 64
  /\ h.length = 8 * Len(message)
  /\ h.round_offset = 64 * (Len(message) \div 64)
  /\ h.buffer = Slice(message, 64 * (Len(message) \div 64), Len(message))
  /\ h = OneUpdate(cls, message)

\* C27: the chunks fed to update in order give the digest one update with
\* the whole message gives; after every update the buffer holds fewer than
\* 64 bytes, length is 8 times the number of bytes fed, and round_offset is
\* 64 times the number of blocks processed; a digest() made after the last
\* update returned that digest.
C27_ChunkedUpdates ==
  /\ AsOneUpdate(HashClass(hasher.class), hasher.self, Fed(updates, Len(updates)))
  /\ (digested.calls > 0 /\ digested.after = Len(updates))
     => digested.value = sha_digest(HashClass(hasher.class),
                                    OneUpdate(HashClass(hasher.class),
                                              Fed(updates, Len(updates))))

\* three updates fed 111 bytes, one block was processed on the way, and
\* digest() was called after the last of them
C27_Witness ==
  /\ Len(updates) = 3
  /\ Len(Fed(updates, Len(updates))) = 111
  /\ hasher.self.round_offset = 64
  /\ Len(hasher.self.buffer) = 47
  /\ digested.calls > 0
  /\ digested.after = 3

\* ---------------------------------------------------------------------------
\* What encode_version does with strings that are no version
\* (src/npk.py:69-89)
\* ---------------------------------------------------------------------------

\* exactly four dot-separated components, the fourth one of alpha, beta, rc,
\* final and test
FourWithKind(value) ==
  \E s \in {SplitDot(value)} : Len(s) = 4 /\ s[4] \in VersionKinds

\* C28: for every string that is not made of exactly four dot-separated
\* components with a fourth of alpha, beta, rc, final or test, encode_version
\* raises ValueError and returns no packed version.
C28_InvalidVersionRaises ==
  (ver_op = "encode" /\ ~FourWithKind(ver_in[2])) => ver = ValueError

\* ---------------------------------------------------------------------------
\* find_7zXZ_data (src/patch.py:96-109, src/netinstall.py:3-15)
\* ---------------------------------------------------------------------------
MaxTokens == 4

\* b'\xFD7zXZ\x00\x00\x01' and b'\x00\x00\x00\x00\x01\x59\x5A'
XZ_HEADER_MAGIC == <<253, 55, 122, 88, 90, 0, 0, 1>>
XZ_FOOTER_MAGIC == <<0, 0, 0, 0, 1, 89, 90>>

\* pattern in data
Contains(data, pattern) ==
  \E i \in 0..(Len(data) - Len(pattern)) : SubSeq(data, i + 1, i + Len(pattern)) = pattern

\* the 0-based offsets at which pattern occurs in data
Occurrences(data, pattern) ==
  { i \in 0..(Len(data) - Len(pattern)) : SubSeq(data, i + 1, i + Len(pattern)) = pattern }

\* data.index(pattern) when pattern is in data: the first occurrence
Index(data, pattern) ==
  CHOOSE i \in Occurrences(data, pattern) : \A j \in Occurrences(data, pattern) : i <= j

\* data[from:to] for to >= 0: a negative from counts from the end
PySlice(data, from, to) ==
  Slice(data, IF from >= 0 THEN from
              ELSE IF Len(data) + from >= 0 THEN Len(data) + from ELSE 0, to)

\* while pattern in _data:
\*     offset = offset + _data.index(pattern) + len(pattern)
\*     _data = _data[offset:]
RECURSIVE MagicLoop(_, _, _)
MagicLoop(_data, pattern, offset) ==
  IF Contains(_data, pattern)
  THEN MagicLoop(Slice(_data, offset + Index(_data, pattern) + Len(pattern), Len(_data)),
                 pattern, offset + Index(_data, pattern) + Len(pattern))
  ELSE offset

\* find_7zXZ_data(data): offset1 -= 8 after the first loop
find_7zXZ_data(data) ==
  PySlice(data, MagicLoop(data, XZ_HEADER_MAGIC, 0) - 8,
          MagicLoop(data, XZ_FOOTER_MAGIC, 0))

\* the data searched: up to MaxTokens pieces, each a header magic, a footer
\* magic or a byte that is in neither
XzTokens == {XZ_HEADER_MAGIC, XZ_FOOTER_MAGIC, <<7>>}
XzData == UNION { {Concat(s) : s \in [1..n -> XzTokens]} : n \in 0..MaxTokens }

InitXz ==
  /\ \E data \in XzData : xz = [pc |-> "called", data |-> data, result |-> <<>>]
  /\ RoundIdle
  /\ ContIdle
  /\ BootIdle
  /\ BlockIdle
  /\ SigIdle
  /\ PkgIdle
  /\ DigIdle
  /\ FileIdle
  /\ GetIdle
  /\ VerIdle
  /\ HashIdle

\* result = find_7zXZ_data(data)
Find ==
  /\ xz.pc = "called"
  /\ xz' = [xz EXCEPT !.pc = "returned", !.result = find_7zXZ_data(xz.data)]
  /\ UNCHANGED <<enc, fc, boot, blockVars, sigVars, pkgVars, digVars, fileVars,
                 getVars, verVars, hashVars>>

NextXz == Find
SpecXz == InitXz /\ [][NextXz]_vars

\* the last occurrence of pattern in data
LastIndex(data, pattern) ==
  CHOOSE i \in Occurrences(data, pattern) : \A j \in Occurrences(data, pattern) : j <= i

\* C30: for data with at least one header magic and at least one footer
\* magic, find_7zXZ_data returns the bytes from the last occurrence of the
\* header magic up to the end of the last occurrence of the footer magic.
C30_LastHeaderToLastFooter ==
  ( /\ xz.pc = "returned"
    /\ Contains(xz.data, XZ_HEADER_MAGIC)
    /\ Contains(xz.data, XZ_FOOTER_MAGIC) )
  => xz.result = Slice(xz.data, LastIndex(xz.data, XZ_HEADER_MAGIC),
                       LastIndex(xz.data, XZ_FOOTER_MAGIC) + 7)

\* ---------------------------------------------------------------------------
\* patch_netinstall: the embedded bootloaders (src/patch.py:110-222,
\* src/netinstall.py:16-152)
\* ---------------------------------------------------------------------------
MaxLoaders == 2
MaxSlack == 1

MZ_MAGIC == <<77, 90>>
ELF_MAGIC == <<127, 69, 76, 70>>

\* the keys of ROUTEROS_BOOT
ROUTEROS_BOOT == {129, 130, 131, 135, 136, 137, 138, 139, 143}

\* key_dict: one old public key and the key that replaces it
OLD_KEY == <<75, 49>>
NEW_KEY == <<78, 50>>

LZMAError == <<"raise", "LZMAError", "">>
UnknownFormat == <<"raise", "Exception", "">>

\* An xz stream is held as the header magic, a byte 1 + slack, the content
\* with every byte XORed with 0xAA, slack bytes 0xAA and the footer magic:
\* the content does not show in the stream, and the length of the stream is
\* not a function of the content.  lzma.compress gives a stream with a slack
\* the caller cannot choose.
XzMask(c) == [j \in 1..Len(c) |-> Xor8(c[j], 170)]
lzma_compress(c, slack) ==
  XZ_HEADER_MAGIC \o <<1 + slack>> \o XzMask(c) \o [j \in 1..slack |-> 170]
    \o XZ_FOOTER_MAGIC

\* lzma.decompress(s): raises for bytes that are no stream
lzma_decompress(s) ==
  IF /\ Len(s) >= 16
     /\ SubSeq(s, 1, 8) = XZ_HEADER_MAGIC
     /\ SubSeq(s, Len(s) - 6, Len(s)) = XZ_FOOTER_MAGIC
     /\ s[9] >= 1
     /\ Len(s) - 16 >= s[9] - 1
  THEN << XzMask(SubSeq(s, 10, Len(s) - 7 - (s[9] - 1))) >>
  ELSE LZMAError

\* bytes.replace(old, new)
RECURSIVE Replace(_, _, _)
Replace(data, old, new) ==
  IF old = <<>> THEN new \o Concat([j \in 1..Len(data) |-> <<data[j]>> \o new])
  ELSE IF Len(data) < Len(old) THEN data
  ELSE IF SubSeq(data, 1, Len(old)) = old
  THEN new \o Replace(SubSeq(data, Len(old) + 1, Len(data)), old, new)
  ELSE <<data[1]>> \o Replace(Tail(data), old, new)

\* for old_public_key, new_public_key in key_dict.items(): replace
ReplaceKeys(initrd) == Replace(initrd, OLD_KEY, NEW_KEY)

\* patch_elf from the assert on: the new stream padded to the old length
\* and put in place of the old one
PatchElfCompressed(data, initrd_xz, new_initrd_xz) ==
  IF Len(new_initrd_xz) > Len(initrd_xz) THEN AssertionError
  ELSE << Replace(data, initrd_xz, Ljust(new_initrd_xz, Len(initrd_xz))) >>

PatchElfDecoded(data, initrd_xz, initrd, slack) ==
  IF Raised(initrd) THEN initrd
  ELSE PatchElfCompressed(data, initrd_xz, lzma_compress(ReplaceKeys(initrd[1]), slack))

\* patch_elf(data, key_dict)
patch_elf(data, slack) ==
  PatchElfDecoded(data, find_7zXZ_data(data), lzma_decompress(find_7zXZ_data(data)), slack)

\* vmlinux[initrd_xz_offset:initrd_xz_offset+initrd_xz_size]
InnerXz(vmlinux) ==
  Slice(vmlinux, Index(vmlinux, XZ_HEADER_MAGIC),
        Index(vmlinux, XZ_HEADER_MAGIC)
          + Index(Slice(vmlinux, Index(vmlinux, XZ_HEADER_MAGIC), Len(vmlinux)),
                  XZ_FOOTER_MAGIC) + 7)

\* patch_pe from the second assert on
PatchPeOuter(data, vmlinux_xz, new_vmlinux_xz) ==
  IF Len(new_vmlinux_xz) > Len(vmlinux_xz) THEN AssertionError
  ELSE << Replace(data, vmlinux_xz, Ljust(new_vmlinux_xz, Len(vmlinux_xz))) >>

\* patch_pe from the first assert on
PatchPeInner(data, vmlinux_xz, vmlinux, initrd_xz, new_initrd_xz, slack) ==
  IF Len(new_initrd_xz) > Len(initrd_xz) THEN AssertionError
  ELSE PatchPeOuter(data, vmlinux_xz,
         lzma_compress(Replace(vmlinux, initrd_xz, Ljust(new_initrd_xz, Len(initrd_xz))),
                       slack))

PatchPeInitrd(data, vmlinux_xz, vmlinux, initrd_xz, initrd, slack1, slack2) ==
  IF Raised(initrd) THEN initrd
  ELSE PatchPeInner(data, vmlinux_xz, vmlinux, initrd_xz,
                    lzma_compress(ReplaceKeys(initrd[1]), slack1), slack2)

\* vmlinux.index(...) raises ValueError when the magic is not in vmlinux
PatchPeVmlinux(data, vmlinux_xz, vmlinux, slack1, slack2) ==
  IF ~Contains(vmlinux, XZ_HEADER_MAGIC) THEN ValueError
  ELSE IF ~Contains(Slice(vmlinux, Index(vmlinux, XZ_HEADER_MAGIC), Len(vmlinux)),
                    XZ_FOOTER_MAGIC) THEN ValueError
  ELSE PatchPeInitrd(data, vmlinux_xz, vmlinux, InnerXz(vmlinux),
                     lzma_decompress(InnerXz(vmlinux)), slack1, slack2)

PatchPeDecoded(data, vmlinux_xz, vmlinux, slack1, slack2) ==
  IF Raised(vmlinux) THEN vmlinux
  ELSE PatchPeVmlinux(data, vmlinux_xz, vmlinux[1], slack1, slack2)

\* patch_pe(data, key_dict)
patch_pe(data, slack1, slack2) ==
  PatchPeDecoded(data, find_7zXZ_data(data), lzma_decompress(find_7zXZ_data(data)),
                 slack1, slack2)

\* the body of the try statement: <<new_data>>, or the exception raised
TryPatch(data, slack1, slack2) ==
  IF Slice(data, 0, 2) = MZ_MAGIC THEN patch_pe(data, slack1, slack2)
  ELSE IF Slice(data, 0, 4) = ELF_MAGIC THEN patch_elf(data, slack1)
  ELSE UnknownFormat

\* except Exception as e: new_data = <the bytes that were to be patched>
OrUnpatched(outcome, data) == IF Raised(outcome) THEN data ELSE outcome[1]

\* src/patch.py, PE netinstall: what one turn of the loop writes at rva for
\* the resource bytes data
\*   _size = struct.unpack('<I', data[:4])[0]; _data = data[4:4+_size]
\*   new_data = struct.pack("<I", _size) + new_data.ljust(len(_data), b'\0')
\*   new_data = new_data.ljust(size, b'\0')
PeTurn_patch(data, slack1, slack2) ==
  [failed |-> Raised(TryPatch(Slice(data, 4, 4 + bytestoint_le(Slice(data, 0, 4))),
                              slack1, slack2)),
   written |->
     Ljust(inttobytes_le(bytestoint_le(Slice(data, 0, 4)), 4)
             \o Ljust(OrUnpatched(TryPatch(Slice(data, 4, 4 + bytestoint_le(Slice(data, 0, 4))),
                                           slack1, slack2),
                                  Slice(data, 4, 4 + bytestoint_le(Slice(data, 0, 4)))),
                      Len(Slice(data, 4, 4 + bytestoint_le(Slice(data, 0, 4))))),
           Len(data))]

\* src/netinstall.py, PE netinstall: what one turn of the loop writes
\*   data = data[4:]
\*   new_data = struct.pack("<I", len(new_data)) + new_data.ljust(len(data), b'\0')
PeTurn_netinstall(data, slack1, slack2) ==
  [failed |-> Raised(TryPatch(Slice(data, 4, Len(data)), slack1, slack2)),
   written |->
     inttobytes_le(Len(OrUnpatched(TryPatch(Slice(data, 4, Len(data)), slack1, slack2),
                                   Slice(data, 4, Len(data)))), 4)
       \o Ljust(OrUnpatched(TryPatch(Slice(data, 4, Len(data)), slack1, slack2),
                            Slice(data, 4, Len(data))),
                Len(Slice(data, 4, Len(data))))]

\* ELF netinstall, both sources: the file after one turn of the loop
\*   new_data = new_data.ljust(len(data), b'\0')
\*   netinstall = netinstall.replace(data, new_data)
ElfTurn(netinstall, data, slack1, slack2) ==
  Replace(netinstall, data,
          Ljust(OrUnpatched(TryPatch(data, slack1, slack2), data), Len(data)))

\* the bytes a bootloader is made of: an ELF with a stream that holds the
\* old key, the same with a stream that has no slack, an ELF with no stream,
\* a PE whose stream holds a vmlinux with a stream in it, and bytes that are
\* neither
LOADER_elf == ELF_MAGIC \o lzma_compress(<<1>> \o OLD_KEY \o <<2>>, 1)
LOADER_elf_tight == ELF_MAGIC \o lzma_compress(<<1>> \o OLD_KEY \o <<2>>, 0)
LOADER_elf_bare == ELF_MAGIC \o <<9>>
LOADER_pe == MZ_MAGIC \o lzma_compress(<<3>> \o lzma_compress(OLD_KEY, 1) \o <<4>>, 1)
LOADER_other == <<88, 89>>
Loaders == {LOADER_elf, LOADER_elf_tight, LOADER_elf_bare, LOADER_pe, LOADER_other}

\* the RCDATA resources of a PE netinstall: a bootloader with its 4-byte
\* size in front, two of them followed by two zero bytes that the size does
\* not count, and a resource that is no bootloader
PeResources ==
  { [id |-> 137, data |-> inttobytes_le(Len(b), 4) \o b] : b \in Loaders }
    \cup { [id |-> 129, data |-> inttobytes_le(Len(b), 4) \o b \o <<0, 0>>] :
             b \in {LOADER_elf, LOADER_other} }
    \cup { [id |-> 5, data |-> <<1, 2, 3, 4, 5>>] }

\* the table of an ELF netinstall whose bootloaders follow its magic one
\* after the other: offset and size of each
RECURSIVE ElfTable(_, _)
ElfTable(blobs, offset) ==
  IF blobs = <<>> THEN <<>>
  ELSE << [offset |-> offset, size |-> Len(Head(blobs))] >>
         \o ElfTable(Tail(blobs), offset + Len(Head(blobs)))

InitBoot ==
  /\ \E source \in {"patch.py", "netinstall.py"} :
       \/ \E n \in 1..MaxLoaders : \E resources \in [1..n -> PeResources] :
            boot = [pc |-> "loop", source |-> source, format |-> "PE",
                    resources |-> resources, netinstall |-> <<>>, table |-> <<>>,
                    turns |-> 0, found |-> <<>>, written |-> <<>>, failed |-> <<>>]
       \/ \E n \in 1..MaxLoaders : \E blobs \in [1..n -> Loaders] :
            boot = [pc |-> "loop", source |-> source, format |-> "ELF",
                    resources |-> <<>>, netinstall |-> ELF_MAGIC \o Concat(blobs),
                    table |-> ElfTable(blobs, 4),
                    turns |-> 0, found |-> <<>>, written |-> <<>>, failed |-> <<>>]
  /\ RoundIdle
  /\ ContIdle
  /\ XzIdle
  /\ BlockIdle
  /\ SigIdle
  /\ PkgIdle
  /\ DigIdle
  /\ FileIdle
  /\ GetIdle
  /\ VerIdle
  /\ HashIdle

\* one turn of `for sub_resource in resource.directory.entries` on a resource
\* that is no bootloader
PeSkip ==
  /\ boot.pc = "loop"
  /\ boot.format = "PE"
  /\ boot.turns < Len(boot.resources)
  /\ boot.resources[boot.turns + 1].id \notin ROUTEROS_BOOT
  /\ boot' = [boot EXCEPT !.turns = boot.turns + 1]
  /\ UNCHANGED <<enc, fc, xz, blockVars, sigVars, pkgVars, digVars, fileVars,
                 getVars, verVars, hashVars>>

\* one turn of the same loop on a bootloader, up to pe.set_bytes_at_rva;
\* in src/netinstall.py the assert on the size in front is made first
PePatch ==
  /\ boot.pc = "loop"
  /\ boot.format = "PE"
  /\ boot.turns < Len(boot.resources)
  /\ boot.resources[boot.turns + 1].id \in ROUTEROS_BOOT
  /\ \E data \in {boot.resources[boot.turns + 1].data},
        slack1 \in 0..MaxSlack, slack2 \in 0..MaxSlack :
       IF boot.source = "netinstall.py"
          /\ Len(data) - 4 < bytestoint_le(Slice(data, 0, 4))
       THEN boot' = [boot EXCEPT !.pc = "raised"]
       ELSE \E turn \in {IF boot.source = "patch.py"
                         THEN PeTurn_patch(data, slack1, slack2)
                         ELSE PeTurn_netinstall(data, slack1, slack2)} :
              boot' = [boot EXCEPT !.turns = boot.turns + 1,
                                   !.resources[boot.turns + 1].data = turn.written,
                                   !.found = Append(boot.found, data),
                                   !.written = Append(boot.written, turn.written),
                                   !.failed = Append(boot.failed, turn.failed)]
  /\ UNCHANGED <<enc, fc, xz, blockVars, sigVars, pkgVars, digVars, fileVars,
                 getVars, verVars, hashVars>>

\* one turn of `for i in range(10)` of an ELF netinstall, the table having
\* Len(boot.table) entries
ElfPatch ==
  /\ boot.pc = "loop"
  /\ boot.format = "ELF"
  /\ boot.turns < Len(boot.table)
  /\ \E entry \in {boot.table[boot.turns + 1]},
        slack1 \in 0..MaxSlack, slack2 \in 0..MaxSlack :
       \E data \in {Slice(boot.netinstall, entry.offset, entry.offset + entry.size)} :
         \E netinstall \in {ElfTurn(boot.netinstall, data, slack1, slack2)} :
           boot' = [boot EXCEPT
                      !.turns = boot.turns + 1,
                      !.netinstall = netinstall,
                      !.found = Append(boot.found, data),
                      !.written = Append(boot.written,
                                         Slice(netinstall, entry.offset,
                                               entry.offset + entry.size)),
                      !.failed = Append(boot.failed,
                                        Raised(TryPatch(data, slack1, slack2)))]
  /\ UNCHANGED <<enc, fc, xz, blockVars, sigVars, pkgVars, digVars, fileVars,
                 getVars, verVars, hashVars>>

\* pe.write(output_file or input_file), open(...).write(netinstall)
BootWrite ==
  /\ boot.pc = "loop"
  /\ boot.turns = IF boot.format = "PE" THEN Len(boot.resources) ELSE Len(boot.table)
  /\ boot' = [boot EXCEPT !.pc = "written"]
  /\ UNCHANGED <<enc, fc, xz, blockVars, sigVars, pkgVars, digVars, fileVars,
                 getVars, verVars, hashVars>>

NextBoot == PeSkip \/ PePatch \/ ElfPatch \/ BootWrite
SpecBoot == InitBoot /\ [][NextBoot]_vars

\* the number of bootloaders of the file
Bootloaders ==
  IF boot.format = "PE"
  THEN Cardinality({j \in 1..Len(boot.resources) : boot.resources[j].id \in ROUTEROS_BOOT})
  ELSE Len(boot.table)

\* C29: when the patching of a bootloader raises, the bytes written back
\* for it, the 4-byte size in front included in a PE netinstall, are the
\* bytes that were there; the bootloaders after it are processed; and what
\* is written for a bootloader, patched or not, has the size of what was
\* there.
C29_FailedLoaderKeepsBytes ==
  boot.pc # "idle"
  => /\ boot.pc # "raised"
     /\ \A j \in 1..Len(boot.found) :
          /\ Len(boot.written[j]) = Len(boot.found[j])
          /\ boot.failed[j] => boot.written[j] = boot.found[j]
     /\ boot.pc = "written" => Len(boot.found) = Bootloaders
====
